---- MODULE Spec2Model ----
(***************************************************************************)
(* A model of the DiceRoller evaluator (class DiceRoller, the roll types   *)
(* it builds and the async helpers async_reduce / async_map).              *)
(*                                                                         *)
(* Random samples are the rationals s / RandDen, s \in 0 .. RandDen - 1,   *)
(* so every sample lies in [0, 1) as randFunction promises.  Objects of    *)
(* the result tree are records; the field ref stands for the identity of   *)
(* the JavaScript object (the code mutates result objects in place and     *)
(* moves them around inside arrays).  The optional flags drop, reroll and  *)
(* explode are FALSE where the code leaves them undefined.  null is the    *)
(* string "null".                                                          *)
(***************************************************************************)
EXTENDS Integers, Sequences, FiniteSets, TLC

VARIABLES
    \* ---- evaluation of one Die node (rollDie) ----
    input,      \* the Die node being evaluated and the configured maxRollCount
    pc,         \* position of rollDie: "start", "mods", "targets", "match", "sort", "done", "error"
    rolls,      \* the local variable rolls of rollDie
    prev,       \* rolls as it was when the latest stage started
    last,       \* the latest stage: its modifier and the number of samples it drew
    nmods,      \* number of entries of input.mods applied so far, and one for input.match or input.sort
    res,        \* the DiceRollResult returned by rollDie
    err,        \* message of the Error thrown, "" if none
    \* ---- evaluation of one Group node (rollGroup) ----
    gtree,      \* the Group node: its member nodes and its modifier list
    task,       \* per member: position and locals of its async_map callback
    queue,      \* the microtask queue: members whose continuation is ready, FIFO
    rnd,        \* the samples randFunction has returned, in the order of the calls
    pos,        \* number of samples of rnd already handed out in the current run
    drawlog,    \* the member that made each draw of the current run
    cached,     \* DiceRoller.cached: name -> transform ("none" if absent)
    calls,      \* number of calls of replacementFunctions per name
    stores,     \* number of assignments to cached[name] per name
    run,        \* 1: first evaluation of gtree, 2: second evaluation by the same DiceRoller
    gpc,        \* position of rollGroup: "idle", "members", "done", "error"
    gres,       \* the GroupRoll returned by the current run
    gres1,      \* the GroupRoll returned by the first run
    \* ---- the loop of getReRollMethod, one iteration per step ----
    rr,         \* state of the reroll loop
    \* ---- the loops of getExplodeMethod, getCompoundMethod, getPenetrateMethod ----
    ex,         \* state of the explode loop
    \* ---- rollDie on a Die node given whole, stage after stage ----
    pl,         \* the node, the position of rollDie, its rolls and the stages it has run
    \* ---- rollType on a syntax tree whose nodes and results are objects of a heap ----
    hp          \* the heap, the number of syntax tree objects in it, the position of rollType

dieVars == <<input, pc, rolls, prev, last, nmods, res, err>>
groupVars == <<gtree, task, queue, rnd, pos, drawlog, cached, calls, stores, run, gpc, gres, gres1>>
vars == <<input, pc, rolls, prev, last, nmods, res, err,
          gtree, task, queue, rnd, pos, drawlog, cached, calls, stores, run, gpc, gres, gres1, rr, ex, pl, hp>>

(***************************************************************************)
(* Bounds of the model.                                                    *)
(***************************************************************************)
RandDen == 4        \* samples are s / RandDen
MaxFaces == 2       \* face counts 1 .. MaxFaces
MaxCount == 2       \* dice counts 0 .. MaxCount
MaxMods == 2        \* length of a Die node's modifier list
MaxDraw == 2        \* samples one modifier stage may draw

(***************************************************************************)
(* Program constants.                                                      *)
(***************************************************************************)
ExplodeCap == 1000          \* explodeCount++ < 1000
DefaultMaxRolls == 1000     \* constructor default maxRolls = 1000

Samples == 0 .. (RandDen - 1)
Comparators == {">", "<", "="}
TargetValues == 1 .. MaxFaces

Max(a, b) == IF a >= b THEN a ELSE b
Min(a, b) == IF a <= b THEN a ELSE b

RECURSIVE SumSeq(_)
SumSeq(s) == IF s = <<>> THEN 0 ELSE Head(s) + SumSeq(Tail(s))

InsertAt(s, i, x) == SubSeq(s, 1, i - 1) \o <<x>> \o SubSeq(s, i, Len(s))

(***************************************************************************)
(* Number.prototype.toFixed() of the product randFunction() * die, read    *)
(* back by parseInt: the nearest integer, halves rounded up.  num / den is *)
(* the product.                                                            *)
(***************************************************************************)
ToFixed(num, den) == (2 * num + den) \div (2 * den)

(***************************************************************************)
(* successTest                                                             *)
(***************************************************************************)
\* a test whose at-least and at-most are strict
successTestStrict(mod, target, roll) ==
    CASE mod = ">" -> roll > target
      [] mod = "<" -> roll < target
      [] OTHER -> roll = target

successTest(mod, target, roll) ==
    CASE mod = ">" -> roll >= target
      [] mod = "<" -> roll <= target
      [] OTHER -> roll = target

(***************************************************************************)
(* generateDiceRoll, generateFateRoll, reRoll.  s is the sample the call   *)
(* of randFunction returns.                                                *)
(***************************************************************************)
generateDiceRoll(die, order, s) ==
    LET roll == ToFixed(s * die, RandDen) + 1
    IN [type |-> "roll", die |-> die, roll |-> roll, value |-> roll,
        order |-> order, valid |-> TRUE,
        critical |-> IF roll = die THEN "success"
                     ELSE IF roll = 1 THEN "failure" ELSE "null",
        matched |-> FALSE, success |-> "null", successes |-> 0, failures |-> 0,
        drop |-> FALSE, reroll |-> FALSE, explode |-> FALSE, ref |-> 0]

generateFateRoll(order, s) ==
    LET roll == ((s * 3) \div RandDen) - 1
    IN [type |-> "fateroll", roll |-> roll, value |-> roll,
        order |-> order, valid |-> TRUE,
        matched |-> FALSE, success |-> "null", successes |-> 0, failures |-> 0,
        drop |-> FALSE, reroll |-> FALSE, explode |-> FALSE, ref |-> 0]

reRoll(roll, order, s) ==
    IF roll.type = "roll" THEN generateDiceRoll(roll.die, order, s)
    ELSE generateFateRoll(order, s)

\* a new object: the result of the constructor call, with its identity
New(r, ref) == [r EXCEPT !.ref = ref]

(***************************************************************************)
(* Array.prototype.sort with a comparator key(a) - key(b): a stable sort   *)
(* by ascending key.  key is the sequence of the keys of s.                *)
(***************************************************************************)
SortByKey(s, key) ==
    LET n == Len(s)
        rank(i) == Cardinality({m \in 1 .. n : key[m] < key[i] \/ (key[m] = key[i] /\ m < i)}) + 1
        at(j) == CHOOSE i \in 1 .. n : rank(i) = j
    IN [j \in 1 .. n |-> s[at(j)]]

\* the object with identity x in the array rs
ByRefOf(rs, x) == rs[CHOOSE i \in 1 .. Len(rs) : rs[i].ref = x]

Lookup(lk, r) == IF lk = "roll" THEN r.roll ELSE r.value

NumValid(s) == Cardinality({i \in 1 .. Len(s) : s[i].valid})

\* a marking that cuts the first toDrop entries off the array
RemoveDropped(s, toDrop) ==
    SubSeq(s, Min(toDrop, Len(s)) + 1, Len(s))

\* while (i < rolls.length && dropped < toDrop) { if (rolls[i].valid) {...; dropped++} i++ }
MarkDropped(s, toDrop) ==
    [i \in 1 .. Len(s) |->
        IF s[i].valid /\ Cardinality({m \in 1 .. i : s[m].valid}) <= toDrop
        THEN [s[i] EXCEPT !.valid = FALSE, !.drop = TRUE]
        ELSE s[i]]

(***************************************************************************)
(* What a modifier method returns: the new array and the number of samples *)
(* it drew, or the message of the Error it threw.  starved: the samples    *)
(* handed to the operator ran out before the loop ended (the run is not a  *)
(* run of the program and is discarded).                                   *)
(***************************************************************************)
Ok(rs, k) == [rolls |-> rs, used |-> k, err |-> "", starved |-> FALSE]
Fail(msg) == [rolls |-> <<>>, used |-> 0, err |-> msg, starved |-> FALSE]
Starved == [rolls |-> <<>>, used |-> 0, err |-> "", starved |-> TRUE]

\* rolls[0].type read on an empty array
TypeError == "TypeError: Cannot read properties of undefined"
InvalidTarget == "Invalid reroll target"

(***************************************************************************)
(* getSuccessMethod, getFailureMethod, getCritSuccessMethod,               *)
(* getCritFailureMethod.  mod.value is exprResult.value.                   *)
(***************************************************************************)
getSuccessMethod(mod, lk, rs) ==
    [i \in 1 .. Len(rs) |->
        IF ~rs[i].valid THEN rs[i]
        ELSE IF successTest(mod.mod, mod.value, Lookup(lk, rs[i]))
             THEN [rs[i] EXCEPT !.successes = @ + 1]
             ELSE rs[i]]

getFailureMethod(mod, lk, rs) ==
    [i \in 1 .. Len(rs) |->
        IF ~rs[i].valid THEN rs[i]
        ELSE IF successTest(mod.mod, mod.value, Lookup(lk, rs[i]))
             THEN [rs[i] EXCEPT !.failures = @ + 1]
             ELSE rs[i]]

getCritSuccessMethod(mod, lk, rs) ==
    [i \in 1 .. Len(rs) |->
        IF ~rs[i].valid \/ rs[i].type # "roll" \/ rs[i].success = "true" THEN rs[i]
        ELSE IF successTest(mod.mod, mod.value, Lookup(lk, rs[i]))
             THEN [rs[i] EXCEPT !.critical = "success"]
             ELSE IF rs[i].critical = "success" THEN [rs[i] EXCEPT !.critical = "null"]
             ELSE rs[i]]

getCritFailureMethod(mod, lk, rs) ==
    [i \in 1 .. Len(rs) |->
        IF ~rs[i].valid \/ rs[i].type # "roll" \/ rs[i].success = "true" THEN rs[i]
        ELSE IF successTest(mod.mod, mod.value, Lookup(lk, rs[i]))
             THEN [rs[i] EXCEPT !.critical = "failure"]
             ELSE IF rs[i].critical = "failure" THEN [rs[i] EXCEPT !.critical = "null"]
             ELSE rs[i]]

(***************************************************************************)
(* getKeepMethod, getDropMethod.  mod.value is exprResult.value, lk the    *)
(* lookup of the caller ("roll" at a die, "value" at a group).             *)
(***************************************************************************)
KeepKeys(mod, lk, rs) ==
    [i \in 1 .. Len(rs) |-> IF mod.highlow = "l" THEN 0 - Lookup(lk, rs[i]) ELSE Lookup(lk, rs[i])]

ValidKeys(rs) == [i \in 1 .. Len(rs) |-> IF rs[i].valid THEN 1 ELSE 0]

\* a keep that counts and marks without putting the invalid entries last
getKeepMethodNoValidSort(mod, lk, rs) ==
    IF Len(rs) = 0 THEN rs
    ELSE LET byValue == SortByKey(rs, KeepKeys(mod, lk, rs))
             toKeep == Max(Min(mod.value, Len(rs)), 0)
             toDrop == Len(rs) - toKeep
         IN MarkDropped(byValue, toDrop)

getKeepMethod(mod, lk, rs) ==
    IF Len(rs) = 0 THEN rs
    ELSE LET byValue == SortByKey(rs, KeepKeys(mod, lk, rs))
             sorted == SortByKey(byValue, ValidKeys(byValue))
             toKeep == Max(Min(mod.value, Len(rs)), 0)
             toDrop == NumValid(sorted) - toKeep
         IN MarkDropped(sorted, toDrop)

DropKeys(mod, lk, rs) ==
    [i \in 1 .. Len(rs) |-> IF mod.highlow = "h" THEN 0 - Lookup(lk, rs[i]) ELSE Lookup(lk, rs[i])]

getDropMethod(mod, lk, rs) ==
    LET sorted == SortByKey(rs, DropKeys(mod, lk, rs))
        toDrop == Max(Min(mod.value, Len(rs)), 0)
    IN MarkDropped(sorted, toDrop)

\* .sort((a, b) => a.order - b.order)
SortByOrder(rs) == SortByKey(rs, [i \in 1 .. Len(rs) |-> rs[i].order])

(***************************************************************************)
(* getExplodeMethod, getPenetrateMethod, getCompoundMethod.                *)
(* targetMethod of the three: r is a trial or the probe object the guard   *)
(* builds, { roll: n }, which has neither type nor die; a comparison with  *)
(* undefined is false.                                                     *)
(***************************************************************************)
explodeTarget(mod, r) ==
    IF mod.hasTarget THEN successTest(mod.mod, mod.value, r.roll)
    ELSE IF "type" \in DOMAIN r /\ r.type = "fateroll" THEN successTest("=", 1, r.roll)
    ELSE IF "die" \in DOMAIN r THEN successTest("=", r.die, r.roll)
    ELSE FALSE

explodeGuard(mod, rs) ==
    /\ rs[1].type = "roll"
    /\ explodeTarget(mod, [roll |-> 1])
    /\ explodeTarget(mod, [roll |-> rs[1].die])

penetrateGuard(mod, rs) ==
    /\ mod.hasTarget
    /\ rs[1].type = "roll"
    /\ explodeTarget(mod, rs[1])
    /\ successTest(mod.mod, mod.value, 1)

\* the for loop (explodeFor) and the while loop inside it (explodeWhile) of
\* getExplodeMethod and getPenetrateMethod; i is the code's i + 1, penalty what
\* the new trial's value is reduced by (newRoll.value -= 1), k the samples drawn
RECURSIVE explodeFor(_, _, _, _, _, _), explodeWhile(_, _, _, _, _, _, _)
explodeFor(mod, penalty, rs, i, ss, k) ==
    IF i > Len(rs) THEN Ok(rs, k)
    ELSE explodeWhile(mod, penalty, [rs EXCEPT ![i].order = i - 1], i, 0, ss, k)

explodeWhile(mod, penalty, rs, i, explodeCount, ss, k) ==
    IF explodeTarget(mod, rs[i]) /\ explodeCount < ExplodeCap
    THEN IF k >= Len(ss) THEN Starved
         ELSE LET made == New(reRoll(rs[i], i, ss[k + 1]), Len(rs) + 1)
                  newRoll == [made EXCEPT !.value = @ - penalty]
                  marked == [rs EXCEPT ![i].explode = TRUE]
              IN explodeWhile(mod, penalty, InsertAt(marked, i + 1, newRoll), i + 1,
                              explodeCount + 1, ss, k + 1)
    ELSE explodeFor(mod, penalty, rs, i + 1, ss, k)

getExplodeMethod(mod, rs, ss) ==
    IF Len(rs) = 0 THEN Fail(TypeError)
    ELSE IF explodeGuard(mod, rs) THEN Fail(InvalidTarget)
    ELSE explodeFor(mod, 0, rs, 1, ss, 0)

getPenetrateMethod(mod, rs, ss) ==
    IF mod.hasTarget /\ Len(rs) = 0 THEN Fail(TypeError)
    ELSE IF Len(rs) > 0 /\ penetrateGuard(mod, rs) THEN Fail(InvalidTarget)
    ELSE explodeFor(mod, 1, rs, 1, ss, 0)

\* roll is the local variable roll (rolls[i], then the latest new trial),
\* rollValue the running sum
RECURSIVE compoundFor(_, _, _, _, _), compoundWhile(_, _, _, _, _, _, _, _)
compoundFor(mod, rs, i, ss, k) ==
    IF i > Len(rs) THEN Ok(rs, k)
    ELSE compoundWhile(mod, rs, i, rs[i], rs[i].roll, 0, ss, k)

compoundWhile(mod, rs, i, roll, rollValue, explodeCount, ss, k) ==
    IF explodeTarget(mod, roll) /\ explodeCount < ExplodeCap
    THEN IF k >= Len(ss) THEN Starved
         ELSE LET newRoll == reRoll(roll, i, ss[k + 1])
                  \* roll.explode = true: roll is rolls[i] in the first pass only
                  marked == IF explodeCount = 0 THEN [rs EXCEPT ![i].explode = TRUE] ELSE rs
              IN compoundWhile(mod, marked, i, newRoll, rollValue + newRoll.roll,
                               explodeCount + 1, ss, k + 1)
    ELSE compoundFor(mod, [rs EXCEPT ![i].value = rollValue, ![i].roll = rollValue],
                     i + 1, ss, k)

getCompoundMethod(mod, rs, ss) ==
    IF Len(rs) = 0 THEN Fail(TypeError)
    ELSE IF explodeGuard(mod, rs) THEN Fail(InvalidTarget)
    ELSE compoundFor(mod, rs, 1, ss, 0)

(***************************************************************************)
(* getReRollMethod, getReRollOnceMethod.                                   *)
(***************************************************************************)
rerollTarget(mod, v) ==
    IF mod.hasTarget THEN successTest(mod.mod, mod.value, v)
    ELSE successTest("=", 1, v)

rerollGuard(mod, rs) ==
    /\ rs[1].type = "roll"
    /\ rerollTarget(mod, 1)
    /\ rerollTarget(mod, rs[1].die)

\* the trial reRoll(rolls[i], i + 1) makes, marked and spliced in after rolls[i]
rerollSplice(rs, i, s) ==
    InsertAt([rs EXCEPT ![i].reroll = TRUE, ![i].valid = FALSE], i + 1,
             New(reRoll(rs[i], i, s), Len(rs) + 1))

RECURSIVE rerollOnceLoop(_, _, _, _, _)
rerollOnceLoop(mod, rs, i, ss, k) ==
    IF i > Len(rs) THEN Ok(rs, k)
    ELSE IF rerollTarget(mod, rs[i].roll)
         THEN IF k >= Len(ss) THEN Starved
              ELSE rerollOnceLoop(mod, rerollSplice(rs, i, ss[k + 1]), i + 2, ss, k + 1)
         ELSE rerollOnceLoop(mod, rs, i + 1, ss, k)

RECURSIVE rerollLoop(_, _, _, _, _)
rerollLoop(mod, rs, i, ss, k) ==
    IF i > Len(rs) THEN Ok(rs, k)
    ELSE IF rerollTarget(mod, rs[i].roll)
         THEN IF k >= Len(ss) THEN Starved
              ELSE rerollLoop(mod, rerollSplice(rs, i, ss[k + 1]), i + 1, ss, k + 1)
         ELSE rerollLoop(mod, rs, i + 1, ss, k)

getReRollMethod(mod, rs, ss) ==
    IF Len(rs) = 0 THEN Fail(TypeError)
    ELSE IF rerollGuard(mod, rs) THEN Fail(InvalidTarget)
    ELSE rerollLoop(mod, rs, 1, ss, 0)

\* a reroll-once that goes on to test the trials it makes
getReRollOnceMethodRetests(mod, rs, ss) == getReRollMethod(mod, rs, ss)

getReRollOnceMethod(mod, rs, ss) ==
    IF Len(rs) = 0 THEN Fail(TypeError)
    ELSE IF rerollGuard(mod, rs) THEN Fail(InvalidTarget)
    ELSE rerollOnceLoop(mod, rs, 1, ss, 0)

(***************************************************************************)
(* applyMod / getModMethod: the method of a die-level modifier, applied.   *)
(***************************************************************************)
applyMod(mod, rs, ss) ==
    CASE mod.type = "success" -> Ok(getSuccessMethod(mod, "roll", rs), 0)
      [] mod.type = "failure" -> Ok(getFailureMethod(mod, "roll", rs), 0)
      [] mod.type = "crit" -> Ok(getCritSuccessMethod(mod, "roll", rs), 0)
      [] mod.type = "critfail" -> Ok(getCritFailureMethod(mod, "roll", rs), 0)
      [] mod.type = "keep" -> Ok(SortByOrder(getKeepMethod(mod, "roll", rs)), 0)
      [] mod.type = "drop" -> Ok(SortByOrder(getDropMethod(mod, "roll", rs)), 0)
      [] mod.type = "explode" -> getExplodeMethod(mod, rs, ss)
      [] mod.type = "compound" -> getCompoundMethod(mod, rs, ss)
      [] mod.type = "penetrate" -> getPenetrateMethod(mod, rs, ss)
      [] mod.type = "reroll" -> getReRollMethod(mod, rs, ss)
      [] mod.type = "rerollOnce" -> getReRollOnceMethod(mod, rs, ss)
      [] OTHER -> Fail("Mod is not recognised")

(***************************************************************************)
(* applyGroupMod / getGroupModMethod.                                      *)
(***************************************************************************)
applyGroupMod(mod, rs) ==
    CASE mod.type = "success" -> Ok(getSuccessMethod(mod, "value", rs), 0)
      [] mod.type = "failure" -> Ok(getFailureMethod(mod, "value", rs), 0)
      [] mod.type = "keep" -> Ok(getKeepMethod(mod, "value", rs), 0)
      [] mod.type = "drop" -> Ok(getDropMethod(mod, "value", rs), 0)
      [] OTHER -> Fail("Mod is not recognised")

(***************************************************************************)
(* The syntax tree.  Modifier specs: type, and by type highlow, or the     *)
(* comparator mod with the value of the target expression; hasTarget is    *)
(* whether a reroll-style modifier carries a target.  Count, face and      *)
(* target expressions are Number nodes, given by their value.              *)
(***************************************************************************)
Mod(type, highlow, hasTarget, cmp, value) ==
    [type |-> type, highlow |-> highlow, hasTarget |-> hasTarget, mod |-> cmp, value |-> value]

KeepDropMods(type) == {Mod(type, hl, FALSE, "=", k) : hl \in {"h", "l"}, k \in 0 .. MaxCount}
CompareMods(type) == {Mod(type, "", TRUE, c, v) : c \in Comparators, v \in TargetValues}
ReRollMods(type) == CompareMods(type) \cup {Mod(type, "", FALSE, "=", 0)}
NoMod == Mod("none", "", FALSE, "=", 0)

\* the modifier list and the target list of a Die node hold at most MaxMods
\* entries together
\* input.targets: absent (the empty sequence), one target, or a success
\* target followed by a failure target
TargetLists ==
    {<<>>} \cup {<<m>> : m \in CompareMods("success") \cup CompareMods("failure")}
           \cup {<<m, Mod("failure", "", TRUE, "=", 1)>> : m \in CompareMods("success")}

\* maxRollCount: 1 as configured, or the default of the constructor
DieNodes ==
    [count : (0 .. MaxCount) \cup {DefaultMaxRolls + 1}, fate : BOOLEAN, faces : 1 .. MaxFaces,
     maxRollCount : {1, DefaultMaxRolls}]

\* the node types rollType evaluates
NodeTypes ==
    {"diceExpression", "group", "die", "expression", "mathfunction", "replacement",
     "inline", "number"}

\* input.match: the minimum count min, whether the count replaces the value,
\* and, with hasCmp, the comparator mod and the expression expr: a node of
\* type expr, a Number of the given value unless the type is not a known one
Match(min, count, hasCmp, cmp, value) ==
    [min |-> min, count |-> count, hasCmp |-> hasCmp, mod |-> cmp, value |-> value,
     expr |-> "number"]

NoMatch == Match(0, FALSE, FALSE, "=", 0)

MatchSpecs ==
    {Match(min, count, FALSE, "=", 0) : min \in 1 .. (MaxCount + 1), count \in BOOLEAN}
        \cup {Match(min, count, TRUE, c, MaxFaces) :
                min \in 1 .. (MaxCount + 1), count \in BOOLEAN, c \in {"=", "<"}}
        \cup {[Match(min, FALSE, TRUE, "=", 0) EXCEPT !.expr = "bogus"] :
                min \in 1 .. (MaxCount + 1)}

\* match and sort are history: the match spec of the node, NoMatch if it has
\* none, and its sort, "none", "asc" or "desc"
NoResult == [value |-> 0, success |-> "null", successes |-> 0, failures |-> 0,
             matched |-> FALSE, targets |-> FALSE, match |-> NoMatch, sort |-> "none"]

Bool(b) == IF b THEN "true" ELSE "false"

\* the sum of roll.value over the valid rolls
ValidSum(rs) == SumSeq([i \in 1 .. Len(rs) |-> IF rs[i].valid THEN rs[i].value ELSE 0])
TotalSuccesses(rs) == SumSeq([i \in 1 .. Len(rs) |-> rs[i].successes])
TotalFailures(rs) == SumSeq([i \in 1 .. Len(rs) |-> rs[i].failures])

(***************************************************************************)
(* rollDie, stage by stage.                                                *)
(***************************************************************************)
GroupIdle ==
    /\ gtree = [rolls |-> <<>>, mods |-> <<>>]
    /\ task = <<>>
    /\ queue = <<>>
    /\ rnd = <<>>
    /\ pos = 0
    /\ drawlog = <<>>
    /\ cached = [n \in {} |-> "none"]
    /\ calls = [n \in {} |-> 0]
    /\ stores = [n \in {} |-> 0]
    /\ run = 0
    /\ gpc = "idle"
    /\ gres = NoResult
    /\ gres1 = NoResult

ReRollIdle == rr = [pc |-> "idle"]
ExplodeIdle == ex = [pc |-> "idle"]
PipelineIdle == pl = [pc |-> "idle"]
HeapIdle == hp = [pc |-> "idle"]

DieInit ==
    /\ input \in DieNodes
    /\ (input.fate => input.faces = 1)
    /\ (input.maxRollCount # DefaultMaxRolls => input.faces = 1 /\ ~input.fate)
    /\ (input.count > MaxCount => input.maxRollCount = DefaultMaxRolls)
    /\ pc = "start"
    /\ rolls = <<>>
    /\ prev = <<>>
    /\ last = [stage |-> "none", mod |-> NoMod, drawn |-> 0]
    /\ nmods = 0
    /\ res = NoResult
    /\ err = ""

Init == DieInit /\ GroupIdle /\ ReRollIdle /\ ExplodeIdle /\ PipelineIdle /\ HeapIdle

\* a step of rollDie leaves the rest alone
OnlyDie == UNCHANGED groupVars /\ UNCHANGED <<rr, ex, pl, hp>>

\* throw new Error(msg): the evaluation ends without a result
Throw(msg) ==
    /\ pc' = "error"
    /\ err' = msg
    /\ UNCHANGED <<rolls, res>>

\* a limit that the count may not reach
tooLargeAtLimit(count, maxRollCount) == count >= maxRollCount

\* count.value > this.maxRollCount
tooLarge(count, maxRollCount) == count > maxRollCount

\* count = await this.rollType(input.count); the limit; the trials
Roll ==
    /\ pc = "start"
    /\ OnlyDie
    /\ prev' = rolls
    /\ UNCHANGED <<input, nmods>>
    /\ IF tooLarge(input.count, input.maxRollCount)
       THEN /\ Throw("Entered number of dice too large.")
            /\ last' = [stage |-> "roll", mod |-> NoMod, drawn |-> 0]
       ELSE \E ss \in [1 .. input.count -> Samples] :
              /\ rolls' = [i \in 1 .. input.count |->
                              IF input.fate THEN New(generateFateRoll(i - 1, ss[i]), i)
                              ELSE New(generateDiceRoll(input.faces, i - 1, ss[i]), i)]
              /\ last' = [stage |-> "roll", mod |-> NoMod, drawn |-> input.count]
              /\ pc' = "mods"
              /\ UNCHANGED <<res, err>>

\* the modifiers whose method calls reRoll
Draws(mod) == mod.type \in {"explode", "compound", "penetrate", "reroll", "rerollOnce"}

\* one pass of async_reduce over input.mods: rolls = await this.applyMod(rolls, mod)
ApplyStage(mod) ==
    /\ pc = "mods"
    /\ OnlyDie
    /\ nmods < MaxMods
    /\ \E n \in 0 .. (IF Draws(mod) THEN MaxDraw ELSE 0) : \E ss \in [1 .. n -> Samples] :
         LET r == applyMod(mod, rolls, ss)
         IN /\ ~r.starved
            /\ r.used = n
            /\ prev' = rolls
            /\ last' = [stage |-> "mod", mod |-> mod, drawn |-> n]
            /\ nmods' = nmods + 1
            /\ UNCHANGED input
            /\ IF r.err # "" THEN Throw(r.err)
               ELSE /\ rolls' = r.rolls
                    /\ UNCHANGED <<pc, res, err>>

\* the success and failure modifiers of a modifier list: the comparators the
\* parser produces and one successTest has no case for
CountingMods(type) ==
    CompareMods(type) \cup {Mod(type, "", TRUE, "~", v) : v \in TargetValues}

ApplySuccess == \E mod \in CountingMods("success") : ApplyStage(mod)
ApplyFailure == \E mod \in CountingMods("failure") : ApplyStage(mod)
ApplyCrit == \E mod \in CompareMods("crit") : ApplyStage(mod)
ApplyCritFail == \E mod \in CompareMods("critfail") : ApplyStage(mod)
ApplyKeep == \E mod \in KeepDropMods("keep") : ApplyStage(mod)
ApplyDrop == \E mod \in KeepDropMods("drop") : ApplyStage(mod)
ApplyExplode == \E mod \in ReRollMods("explode") : ApplyStage(mod)
ApplyCompound == \E mod \in ReRollMods("compound") : ApplyStage(mod)
ApplyPenetrate == \E mod \in ReRollMods("penetrate") : ApplyStage(mod)
ApplyReRoll == \E mod \in ReRollMods("reroll") : ApplyStage(mod)
ApplyReRollOnce == \E mod \in ReRollMods("rerollOnce") : ApplyStage(mod)
\* a modifier of a type getModMethod has no case for
UnknownMods == {Mod("bogus", "", FALSE, "=", 0)}
ApplyUnknown == \E mod \in UnknownMods : ApplyStage(mod)

\* async_reduce over a list of modifiers that draw no sample
RECURSIVE applyAll(_, _)
applyAll(mods, rs) ==
    IF mods = <<>> THEN rs ELSE applyAll(Tail(mods), applyMod(Head(mods), rs, <<>>).rolls)

\* .map((roll) => { ...; roll.value = roll.successes - roll.failures; roll.success = roll.value > 0 })
targetValues(rs) ==
    [i \in 1 .. Len(rs) |->
        [rs[i] EXCEPT !.value = rs[i].successes - rs[i].failures,
                      !.success = Bool(rs[i].successes - rs[i].failures > 0)]]

\* if (input.targets) {...}, then the aggregate and the returned DiceRollResult
\* (input.match and input.sort absent)
Targets ==
    /\ pc = "mods"
    /\ OnlyDie
    /\ \E targets \in TargetLists :
         /\ nmods + Len(targets) <= MaxMods
         /\ LET after   == IF targets = <<>> THEN rolls ELSE targetValues(applyAll(targets, rolls))
               value == ValidSum(after)
           IN /\ rolls' = after
              /\ prev' = rolls
              /\ last' = [stage |-> "targets",
                          mod |-> IF targets = <<>> THEN NoMod ELSE targets[1], drawn |-> 0]
              /\ res' = [value |-> value,
                         success |-> IF targets = <<>> THEN "null" ELSE Bool(value > 0),
                         successes |-> IF targets = <<>> THEN 0 ELSE TotalSuccesses(after),
                         failures |-> IF targets = <<>> THEN 0 ELSE TotalFailures(after),
                         matched |-> FALSE, targets |-> targets # <<>>,
                         match |-> NoMatch, sort |-> "none"]
              /\ pc' = "done"
              /\ UNCHANGED <<input, nmods, err>>

\* a match that asks for more than match.min.value entries
matchesMoreThanMin(match, rs) ==
    {v \in {rs[i].roll : i \in 1 .. Len(rs)} :
        /\ Cardinality({i \in 1 .. Len(rs) : rs[i].roll = v}) > match.min
        /\ match.hasCmp => successTest(match.mod, match.value, v)}

\* the values that occur matchedCount >= match.min.value times as the roll
\* of an entry and pass the test of the match spec, if it has one
matches(match, rs) ==
    {v \in {rs[i].roll : i \in 1 .. Len(rs)} :
        /\ Cardinality({i \in 1 .. Len(rs) : rs[i].roll = v}) >= match.min
        /\ match.hasCmp => successTest(match.mod, match.value, v)}

\* rolls.filter((roll) => matches.has(roll.roll)).forEach((roll) => (roll.matched = true))
markMatched(match, rs) ==
    [i \in 1 .. Len(rs) |->
        IF rs[i].roll \in matches(match, rs) THEN [rs[i] EXCEPT !.matched = TRUE] ELSE rs[i]]

\* a descending sort that is the ascending sort read backwards
applySortReversed(rs, asc) ==
    LET up == SortByKey(rs, [i \in 1 .. Len(rs) |-> rs[i].roll])
        sorted == IF asc THEN up ELSE [i \in 1 .. Len(up) |-> up[Len(up) + 1 - i]]
    IN [i \in 1 .. Len(sorted) |-> [sorted[i] EXCEPT !.order = i - 1]]

\* rolls.sort by roll, ascending or descending; then roll.order = i
applySort(rs, asc) ==
    LET sorted == SortByKey(rs, [i \in 1 .. Len(rs) |-> IF asc THEN rs[i].roll ELSE 0 - rs[i].roll])
    IN [i \in 1 .. Len(sorted) |-> [sorted[i] EXCEPT !.order = i - 1]]

\* async_filter calls its function, and that rollType(match.expr), for the
\* values that occur match.min.value times or more: with none, match.expr
\* is not evaluated
exprEvaluated(match, rs) ==
    /\ match.hasCmp
    /\ \E v \in {rs[i].roll : i \in 1 .. Len(rs)} :
         Cardinality({i \in 1 .. Len(rs) : rs[i].roll = v}) >= match.min

\* if (input.match) {...}, then the aggregate and the returned DiceRollResult
\* (input.targets and input.sort absent); res.match is set whatever the outcome
MatchStage ==
    /\ pc = "mods"
    /\ OnlyDie
    /\ nmods < MaxMods
    /\ \E match \in MatchSpecs :
         /\ prev' = rolls
         /\ last' = [stage |-> "match", mod |-> NoMod, drawn |-> 0]
         /\ nmods' = nmods + 1
         /\ UNCHANGED input
         /\ IF exprEvaluated(match, rolls) /\ match.expr \notin NodeTypes
            THEN /\ pc' = "error"
                 /\ err' = "Unable to render"
                 /\ res' = [res EXCEPT !.match = match]
                 /\ UNCHANGED rolls
            ELSE /\ rolls' = markMatched(match, rolls)
                 /\ res' = [value |-> IF match.count THEN Cardinality(matches(match, rolls))
                                      ELSE ValidSum(rolls),
                            success |-> "null", successes |-> 0, failures |-> 0,
                            matched |-> match.count, targets |-> FALSE,
                            match |-> match, sort |-> "none"]
                 /\ pc' = "done"
                 /\ UNCHANGED err

\* if (input.sort) {...}, then the aggregate and the returned DiceRollResult
\* (input.targets and input.match absent)
SortStage ==
    /\ pc = "mods"
    /\ OnlyDie
    /\ nmods < MaxMods
    /\ \E asc \in BOOLEAN :
         /\ rolls' = applySort(rolls, asc)
         /\ prev' = rolls
         /\ last' = [stage |-> "sort", mod |-> NoMod, drawn |-> 0]
         /\ res' = [value |-> ValidSum(applySort(rolls, asc)),
                    success |-> "null", successes |-> 0, failures |-> 0,
                    matched |-> FALSE, targets |-> FALSE,
                    match |-> NoMatch, sort |-> IF asc THEN "asc" ELSE "desc"]
         /\ nmods' = nmods + 1
         /\ pc' = "done"
         /\ UNCHANGED <<input, err>>

Next ==
    \/ Roll
    \/ ApplySuccess
    \/ ApplyFailure
    \/ ApplyCrit
    \/ ApplyCritFail
    \/ ApplyKeep
    \/ ApplyDrop
    \/ ApplyExplode
    \/ ApplyCompound
    \/ ApplyPenetrate
    \/ ApplyReRoll
    \/ ApplyReRollOnce
    \/ ApplyUnknown
    \/ Targets
    \/ MatchStage
    \/ SortStage

Spec == Init /\ [][Next]_vars

(***************************************************************************)
(* The method getReRollMethod returns, one loop iteration per step.  The   *)
(* loop reads rolls[i].roll and nothing else of the array, and never goes  *)
(* back: rr.window holds the rolls of rolls[i], rolls[i + 1], ..., the     *)
(* entries the loop has yet to test; the entries before i are final and    *)
(* are left out.  rr.generated is whether reRoll has been called.          *)
(***************************************************************************)
\* the rolls generateDiceRoll(die, ...) and generateFateRoll(...) can return
DieOutcomes(die) == {generateDiceRoll(die, 0, s).roll : s \in Samples}
FateOutcomes == {generateFateRoll(0, s).roll : s \in Samples}

SeqsUpTo(S, n) == UNION {[1 .. m -> S] : m \in 0 .. n}

DieIdle ==
    /\ input = [count |-> 0, fate |-> FALSE, faces |-> 1, maxRollCount |-> DefaultMaxRolls]
    /\ pc = "idle"
    /\ rolls = <<>>
    /\ prev = <<>>
    /\ last = [stage |-> "none", mod |-> NoMod, drawn |-> 0]
    /\ nmods = 0
    /\ res = NoResult
    /\ err = ""

ReRollInit ==
    /\ DieIdle
    /\ GroupIdle
    /\ ExplodeIdle
    /\ PipelineIdle
    /\ HeapIdle
    /\ \E mod \in ReRollMods("reroll") :
         \/ \E die \in 1 .. MaxFaces : \E w \in SeqsUpTo(DieOutcomes(die), MaxCount) :
              rr = [pc |-> "guard", type |-> "roll", die |-> die, mod |-> mod,
                    window |-> w, generated |-> FALSE, err |-> ""]
         \/ \E w \in SeqsUpTo(FateOutcomes, MaxCount) :
              rr = [pc |-> "guard", type |-> "fateroll", die |-> 0, mod |-> mod,
                    window |-> w, generated |-> FALSE, err |-> ""]

OnlyReRoll == UNCHANGED dieVars /\ UNCHANGED groupVars /\ UNCHANGED <<ex, pl, hp>>

\* if (rolls[0].type === "roll" && targetMethod(1) && targetMethod(rolls[0].die)) throw
ReRollGuard ==
    /\ rr.pc = "guard"
    /\ OnlyReRoll
    /\ rr' = IF rr.window = <<>> THEN [rr EXCEPT !.pc = "error", !.err = TypeError]
             ELSE IF rr.type = "roll" /\ rerollTarget(rr.mod, 1) /\ rerollTarget(rr.mod, rr.die)
                  THEN [rr EXCEPT !.pc = "error", !.err = InvalidTarget]
                  ELSE [rr EXCEPT !.pc = "loop"]

\* while (targetMethod(rolls[i].roll)) fails: i++
ReRollPass ==
    /\ rr.pc = "loop"
    /\ OnlyReRoll
    /\ rr.window # <<>>
    /\ ~rerollTarget(rr.mod, rr.window[1])
    /\ rr' = [rr EXCEPT !.window = Tail(@)]

\* the body of the while loop: the new trial is the next entry to test;
\* s is the sample randFunction returns
ReRollDraw(s) ==
    /\ rr.pc = "loop"
    /\ OnlyReRoll
    /\ rr.window # <<>>
    /\ rerollTarget(rr.mod, rr.window[1])
    /\ LET newRoll == IF rr.type = "roll" THEN generateDiceRoll(rr.die, 0, s)
                      ELSE generateFateRoll(0, s)
       IN rr' = [rr EXCEPT !.window = <<newRoll.roll>> \o Tail(@), !.generated = TRUE]

\* i < rolls.length fails: return rolls
ReRollReturn ==
    /\ rr.pc = "loop"
    /\ OnlyReRoll
    /\ rr.window = <<>>
    /\ rr' = [rr EXCEPT !.pc = "done"]

ReRollNext ==
    \/ ReRollGuard
    \/ ReRollPass
    \/ \E s \in Samples : ReRollDraw(s)
    \/ ReRollReturn

\* the code runs on while it can, and randFunction returns every sample
\* again and again
ReRollSpec ==
    /\ ReRollInit
    /\ [][ReRollNext]_vars
    /\ WF_vars(ReRollGuard)
    /\ WF_vars(ReRollPass)
    /\ WF_vars(ReRollReturn)
    /\ \A s \in Samples : SF_vars(ReRollDraw(s))

(***************************************************************************)
(* The methods getExplodeMethod, getCompoundMethod and getPenetrateMethod  *)
(* return, one evaluation of the while condition per step.  The loops read *)
(* of the array only the type, die and roll of the entry under test:       *)
(* ex.window holds the roll of the local variable roll, followed by the    *)
(* rolls of the entries of the array the for loop has yet to reach.  Per   *)
(* entry the for loop visits: ex.explodeCount is the local variable,       *)
(* ex.passes the number of times targetMethod(roll) returned true,         *)
(* ex.made the number of calls of reRoll and ex.spliced the number of      *)
(* calls of rolls.splice; ex.capped is whether the cap has ended the while *)
(* loop of some entry.                                                     *)
(***************************************************************************)
ExplodeKinds == {"explode", "compound", "penetrate"}

ExplodeMods(kind) ==
    {Mod(kind, "", FALSE, "=", 0)} \cup {Mod(kind, "", TRUE, c, MaxFaces) : c \in Comparators}

\* the fields of a trial that targetMethod and the guards read
Trial(type, die, roll) ==
    IF type = "roll" THEN [type |-> "roll", die |-> die, roll |-> roll]
    ELSE [type |-> "fateroll", roll |-> roll]

\* a cap that lets one more iteration through
UnderCapLate(explodeCount) == explodeCount <= ExplodeCap

\* explodeCount++ < 1000
UnderCap(explodeCount) == explodeCount < ExplodeCap

\* every loop inserts the new trial
SplicedAlways(kind) == 1

\* rolls.splice(i, 0, newRoll): explode and penetrate insert the new trial,
\* compound adds its roll to rollValue
Spliced(kind) == IF kind = "compound" THEN 0 ELSE 1

ExplodeStart(kind, type, die, mod, w) ==
    ex = [pc |-> "guard", kind |-> kind, type |-> type, die |-> die, mod |-> mod,
          window |-> w, explodeCount |-> 0, passes |-> 0, made |-> 0, spliced |-> 0,
          capped |-> FALSE, err |-> ""]

ExplodeInit ==
    /\ DieIdle
    /\ GroupIdle
    /\ ReRollIdle
    /\ PipelineIdle
    /\ HeapIdle
    /\ \E kind \in ExplodeKinds : \E mod \in ExplodeMods(kind) :
         \/ \E die \in 1 .. MaxFaces : \E w \in SeqsUpTo(DieOutcomes(die), MaxCount) :
              ExplodeStart(kind, "roll", die, mod, w)
         \/ \E w \in SeqsUpTo(FateOutcomes, MaxCount) :
              ExplodeStart(kind, "fateroll", 0, mod, w)

OnlyExplode == UNCHANGED dieVars /\ UNCHANGED groupVars /\ UNCHANGED <<rr, pl, hp>>

\* the guard of the method; rolls[0].type of an empty array is a TypeError
ExplodeGuard ==
    /\ ex.pc = "guard"
    /\ OnlyExplode
    /\ LET rs == [i \in 1 .. Len(ex.window) |-> Trial(ex.type, ex.die, ex.window[i])]
           reads == ex.kind # "penetrate" \/ ex.mod.hasTarget
       IN ex' = IF rs = <<>>
                THEN IF reads THEN [ex EXCEPT !.pc = "error", !.err = TypeError]
                     ELSE [ex EXCEPT !.pc = "done"]
                ELSE IF (IF ex.kind = "penetrate" THEN penetrateGuard(ex.mod, rs)
                         ELSE explodeGuard(ex.mod, rs))
                     THEN [ex EXCEPT !.pc = "error", !.err = InvalidTarget]
                     ELSE [ex EXCEPT !.pc = "while"]

\* the while condition holds: the body; s is the sample randFunction returns
ExplodeBody ==
    /\ ex.pc = "while"
    /\ OnlyExplode
    /\ explodeTarget(ex.mod, Trial(ex.type, ex.die, ex.window[1]))
    /\ UnderCap(ex.explodeCount)
    /\ \E s \in Samples :
         LET newRoll == IF ex.type = "roll" THEN generateDiceRoll(ex.die, 0, s)
                        ELSE generateFateRoll(0, s)
         IN ex' = [ex EXCEPT !.window = <<newRoll.roll>> \o Tail(@),
                             !.explodeCount = @ + 1,
                             !.passes = @ + 1,
                             !.made = @ + 1,
                             !.spliced = @ + Spliced(ex.kind)]

\* the while condition fails, on the target or on the cap: the loop is left
ExplodeStop ==
    /\ ex.pc = "while"
    /\ OnlyExplode
    /\ LET passes == explodeTarget(ex.mod, Trial(ex.type, ex.die, ex.window[1]))
       IN /\ ~(passes /\ UnderCap(ex.explodeCount))
          /\ ex' = [ex EXCEPT !.pc = "for",
                              !.passes = IF passes THEN @ + 1 ELSE @,
                              !.explodeCount = IF passes THEN @ + 1 ELSE @,
                              !.capped = @ \/ passes]

\* i++; i < rolls.length holds: the next entry of the array
ExplodeForNext ==
    /\ ex.pc = "for"
    /\ OnlyExplode
    /\ Len(ex.window) > 1
    /\ ex' = [ex EXCEPT !.pc = "while", !.window = Tail(@), !.explodeCount = 0,
                        !.passes = 0, !.made = 0, !.spliced = 0]

\* i < rolls.length fails: return rolls
ExplodeReturn ==
    /\ ex.pc = "for"
    /\ OnlyExplode
    /\ Len(ex.window) = 1
    /\ ex' = [ex EXCEPT !.pc = "done"]

ExplodeNext ==
    \/ ExplodeGuard
    \/ ExplodeBody
    \/ ExplodeStop
    \/ ExplodeForNext
    \/ ExplodeReturn

\* the code runs on while it can
ExplodeSpec ==
    /\ ExplodeInit
    /\ [][ExplodeNext]_vars
    /\ WF_vars(ExplodeGuard)
    /\ WF_vars(ExplodeBody)
    /\ WF_vars(ExplodeStop)
    /\ WF_vars(ExplodeForNext)
    /\ WF_vars(ExplodeReturn)

(***************************************************************************)
(* rollDie on a Die node that is given whole: its count, its faces, its    *)
(* modifier list, its target list, its match and its sort.  One step per   *)
(* stage; pl.log holds, per stage run, the array it was given, the array   *)
(* it returned and the samples it drew, pl.draws the stage of every call   *)
(* of randFunction, in the order of the calls.                             *)
(***************************************************************************)
PipeMods ==
    {Mod("keep", "h", FALSE, "=", 1), Mod("reroll", "", FALSE, "=", 0),
     Mod("explode", "", FALSE, "=", 0), Mod("success", "", TRUE, ">", MaxFaces)}

PipeNodes ==
    [count : 1 .. MaxCount, faces : {MaxFaces},
     mods : SeqsUpTo(PipeMods, MaxMods),
     targets : {<<>>, <<Mod("success", "", TRUE, ">", MaxFaces)>>},
     match : {NoMatch, Match(MaxCount, TRUE, FALSE, "=", 0)},
     sort : {"none", "asc", "desc"}]

PipelineInit ==
    /\ DieIdle
    /\ GroupIdle
    /\ ReRollIdle
    /\ ExplodeIdle
    /\ HeapIdle
    /\ \E node \in PipeNodes :
         pl = [pc |-> "start", node |-> node, k |-> 0, rolls |-> <<>>,
               log |-> <<>>, draws |-> <<>>, value |-> 0, err |-> ""]

OnlyPipeline == UNCHANGED dieVars /\ UNCHANGED groupVars /\ UNCHANGED <<rr, ex, hp>>

\* a rollDie that takes input.sort before input.targets and input.match
stageAfterSortFirst(node, stage) ==
    CASE stage = "mods" -> IF node.sort # "none" THEN "sort"
                           ELSE IF node.targets # <<>> THEN "targets"
                           ELSE IF node.match # NoMatch THEN "match" ELSE "return"
      [] stage = "sort" -> IF node.targets # <<>> THEN "targets"
                           ELSE IF node.match # NoMatch THEN "match" ELSE "return"
      [] stage = "targets" -> IF node.match # NoMatch THEN "match" ELSE "return"
      [] OTHER -> "return"

\* the if statements of rollDie that follow the stage: if (input.targets),
\* if (input.match), if (input.sort), then the value and the return
stageAfter(node, stage) ==
    CASE stage = "mods" -> IF node.targets # <<>> THEN "targets"
                           ELSE IF node.match # NoMatch THEN "match"
                           ELSE IF node.sort # "none" THEN "sort" ELSE "return"
      [] stage = "targets" -> IF node.match # NoMatch THEN "match"
                              ELSE IF node.sort # "none" THEN "sort" ELSE "return"
      [] stage = "match" -> IF node.sort # "none" THEN "sort" ELSE "return"
      [] OTHER -> "return"

\* async_reduce: the next element of input.mods, or what follows the list
afterMod(node, k) == IF k < Len(node.mods) THEN "mod" ELSE stageAfter(node, "mods")

\* the stage has run: its record, and its draws after those made before
Logged(stage, inp, out, n) ==
    [pl EXCEPT !.rolls = out,
               !.log = Append(@, [stage |-> stage, inp |-> inp, out |-> out, drawn |-> n]),
               !.draws = @ \o [i \in 1 .. n |-> Len(pl.log) + 1]]

\* rolls = Array.from({ length: count.value }, ...)
PipeRoll ==
    /\ pl.pc = "start"
    /\ OnlyPipeline
    /\ \E ss \in [1 .. pl.node.count -> Samples] :
         LET made == [i \in 1 .. pl.node.count |->
                         New(generateDiceRoll(pl.node.faces, i - 1, ss[i]), i)]
         IN pl' = [Logged("roll", <<>>, made, pl.node.count)
                     EXCEPT !.pc = afterMod(pl.node, 0)]

\* init = await func(init, element, index) of async_reduce over input.mods
PipeMod ==
    /\ pl.pc = "mod"
    /\ OnlyPipeline
    /\ \E n \in 0 .. MaxDraw : \E ss \in [1 .. n -> Samples] :
         LET r == applyMod(pl.node.mods[pl.k + 1], pl.rolls, ss)
         IN /\ ~r.starved
            /\ r.used = n
            /\ IF r.err # ""
               THEN pl' = [pl EXCEPT !.pc = "error", !.err = r.err]
               ELSE pl' = [Logged("mod", pl.rolls, r.rolls, n)
                             EXCEPT !.k = pl.k + 1, !.pc = afterMod(pl.node, pl.k + 1)]

\* if (input.targets) {...}
PipeTargets ==
    /\ pl.pc = "targets"
    /\ OnlyPipeline
    /\ pl' = [Logged("targets", pl.rolls, targetValues(applyAll(pl.node.targets, pl.rolls)), 0)
                EXCEPT !.pc = stageAfter(pl.node, "targets")]

\* if (input.match) {...}
PipeMatch ==
    /\ pl.pc = "match"
    /\ OnlyPipeline
    /\ pl' = [Logged("match", pl.rolls, markMatched(pl.node.match, pl.rolls), 0)
                EXCEPT !.pc = stageAfter(pl.node, "match")]

\* if (input.sort) { rolls = this.applySort(rolls, input.sort) }
PipeSort ==
    /\ pl.pc = "sort"
    /\ OnlyPipeline
    /\ pl' = [Logged("sort", pl.rolls, applySort(pl.rolls, pl.node.sort = "asc"), 0)
                EXCEPT !.pc = stageAfter(pl.node, "sort")]

\* the value and the returned DiceRollResult
PipeReturn ==
    /\ pl.pc = "return"
    /\ OnlyPipeline
    /\ pl' = [pl EXCEPT !.pc = "done",
                        !.value = IF pl.node.match # NoMatch /\ pl.node.match.count
                                  THEN Cardinality(matches(pl.node.match, pl.rolls))
                                  ELSE ValidSum(pl.rolls)]

PipelineNext ==
    \/ PipeRoll
    \/ PipeMod
    \/ PipeTargets
    \/ PipeMatch
    \/ PipeSort
    \/ PipeReturn

PipelineSpec == PipelineInit /\ [][PipelineNext]_vars

(***************************************************************************)
(* rollType on a syntax tree of Number, Inline, Dice-Expression and Group  *)
(* nodes, with the objects kept in a heap: hp.heap[id] is the object with  *)
(* identity id.  The objects 1 .. hp.n are the nodes of the syntax tree,   *)
(* hp.tree is the heap as the caller handed it in; every object literal    *)
(* the code evaluates is a new object at the end of the heap.  A field a   *)
(* node does not have is "" (label), 0 (expr, head), <<>> (ops, rolls,     *)
(* dice), -1 (order) or "absent" (valid).                                  *)
(***************************************************************************)
Labels == {"", "a"}
NodeValues == 1 .. MaxFaces

Node(type, value, label, expr, head, ops, members) ==
    [type |-> type, value |-> value, label |-> label, expr |-> expr, head |-> head,
     ops |-> ops, rolls |-> members, dice |-> <<>>, order |-> 0 - 1, valid |-> "absent"]

NumberTree == {<<Node("number", v, l, 0, 0, <<>>, <<>>)>> : v \in NodeValues, l \in Labels}

InlineTree ==
    {nt \o <<Node("inline", 0, l, 1, 0, <<>>, <<>>)>> : nt \in NumberTree, l \in Labels}

\* head: the Number 1; tails: the Number 2 and the Inline 3 of the Number 2
OpLists ==
    {<<[op |-> o, tail |-> x]>> : o \in {"+", "-"}, x \in {2, 3}}
        \cup {<<[op |-> "+", tail |-> x], [op |-> o, tail |-> y]>> :
                o \in {"+", "-"}, x \in {2, 3}, y \in {2, 3}}

DiceExprTree ==
    {<<Node("number", 1, "", 0, 0, <<>>, <<>>)>> \o
        <<Node("number", v, l, 0, 0, <<>>, <<>>), Node("inline", 0, li, 2, 0, <<>>, <<>>),
          Node("diceExpression", 0, lx, 0, 1, ops, <<>>)>> :
        v \in NodeValues, l \in Labels, li \in Labels, lx \in Labels, ops \in OpLists}

GroupTree ==
    {<<Node("number", 1, l, 0, 0, <<>>, <<>>), Node("number", v, "", 0, 0, <<>>, <<>>),
       Node("inline", 0, li, 2, 0, <<>>, <<>>), Node("group", 0, lx, 0, 0, <<>>, ms)>> :
        v \in NodeValues, l \in Labels, li \in Labels, lx \in Labels,
        ms \in {<<1>>, <<1, 2>>, <<3, 1>>}}

\* the root is the last object of the tree
HeapInit ==
    /\ DieIdle
    /\ GroupIdle
    /\ ReRollIdle
    /\ ExplodeIdle
    /\ PipelineIdle
    /\ \E tree \in NumberTree \cup InlineTree \cup DiceExprTree \cup GroupTree :
         hp = [pc |-> "start", heap |-> tree, tree |-> tree, n |-> Len(tree),
               root |-> Len(tree), acc |-> <<>>, ops |-> <<>>, k |-> 0, value |-> 0, res |-> 0]

OnlyHeap == UNCHANGED dieVars /\ UNCHANGED groupVars /\ UNCHANGED <<rr, ex, pl>>

\* an object literal: a new object
Alloc(h, obj) == [heap |-> Append(h, obj), res |-> Len(h) + 1]

\* a Number case that hands the node itself back as its result
rollNumberShared(h, id) == [heap |-> h, res |-> id]

\* case "number": response = { ...input, success: null, successes: 0, failures: 0,
\* valid: true, order: 0 }
rollNumber(h, id) == Alloc(h, [h[id] EXCEPT !.valid = "true", !.order = 0])

\* if (input.label) { response.label = input.label }
applyLabel(h, id, response) ==
    IF h[id].label # "" THEN [h EXCEPT ![response].label = h[id].label] ELSE h

\* rollType on a Number, or on an Inline: rollType(input.expr)
RECURSIVE rollTypeLeaf(_, _)
rollTypeLeaf(h, id) ==
    LET r == IF h[id].type = "number" THEN rollNumber(h, id)
             ELSE rollTypeLeaf(h, h[id].expr)
    IN [heap |-> applyLabel(r.heap, id, r.res), res |-> r.res]

\* rollType(root) for a Number or an Inline
HeapLeaf ==
    /\ hp.pc = "start"
    /\ hp.heap[hp.root].type \in {"number", "inline"}
    /\ OnlyHeap
    /\ LET r == rollTypeLeaf(hp.heap, hp.root)
       IN hp' = [hp EXCEPT !.pc = "done", !.heap = r.heap, !.res = r.res,
                           !.value = r.heap[r.res].value]

\* rollDiceExpr: headRoll = await this.rollType(input.head); rolls = [headRoll]
HeapHead ==
    /\ hp.pc = "start"
    /\ hp.heap[hp.root].type = "diceExpression"
    /\ OnlyHeap
    /\ LET r == rollTypeLeaf(hp.heap, hp.heap[hp.root].head)
       IN hp' = [hp EXCEPT !.pc = "ops", !.heap = r.heap, !.acc = <<r.res>>,
                           !.value = r.heap[r.res].value]

\* one pass of async_reduce over input.ops: tailRoll = await this.rollType(math.tail);
\* tailRoll.order = order; rolls.push(tailRoll); ops.push(math.op)
HeapOp ==
    /\ hp.pc = "ops"
    /\ hp.k < Len(hp.heap[hp.root].ops)
    /\ OnlyHeap
    /\ LET math == hp.heap[hp.root].ops[hp.k + 1]
           r == rollTypeLeaf(hp.heap, math.tail)
           tailValue == r.heap[r.res].value
       IN hp' = [hp EXCEPT !.heap = [r.heap EXCEPT ![r.res].order = hp.k],
                           !.acc = Append(@, r.res),
                           !.ops = Append(@, math.op),
                           !.k = @ + 1,
                           !.value = IF math.op = "+" THEN @ + tailValue ELSE @ - tailValue]

\* return { dice: rolls, ops, ..., type: "diceexpressionroll", valid: true, value, order: 0 },
\* then the label in rollType
HeapExprReturn ==
    /\ hp.pc = "ops"
    /\ hp.k = Len(hp.heap[hp.root].ops)
    /\ OnlyHeap
    /\ LET r == Alloc(hp.heap, [Node("diceexpressionroll", hp.value, "", 0, 0, hp.ops, <<>>)
                                  EXCEPT !.dice = hp.acc, !.valid = "true", !.order = 0])
       IN hp' = [hp EXCEPT !.pc = "done", !.heap = applyLabel(r.heap, hp.root, r.res),
                           !.res = r.res]

\* async_map(input.rolls, async (roll, order) => ({ ...(await this.rollType(roll)), order })):
\* the members from index i on; no member draws, the order of the callbacks is that of the list
RECURSIVE groupMembers(_, _, _, _)
groupMembers(h, members, i, acc) ==
    IF i > Len(members) THEN [heap |-> h, acc |-> acc]
    ELSE LET r == rollTypeLeaf(h, members[i])
             c == Alloc(r.heap, [r.heap[r.res] EXCEPT !.order = i - 1])
         IN groupMembers(c.heap, members, i + 1, Append(acc, c.res))

\* rollGroup on a Group without modifiers
HeapGroupMembers ==
    /\ hp.pc = "start"
    /\ hp.heap[hp.root].type = "group"
    /\ OnlyHeap
    /\ LET r == groupMembers(hp.heap, hp.heap[hp.root].rolls, 1, <<>>)
       IN hp' = [hp EXCEPT !.pc = "group", !.heap = r.heap, !.acc = r.acc,
                           !.value = SumSeq([i \in 1 .. Len(r.acc) |-> r.heap[r.acc[i]].value])]

\* return { dice: rolls, ..., type: "grouproll", valid: true, value, order: 0 }, then the label
HeapGroupReturn ==
    /\ hp.pc = "group"
    /\ OnlyHeap
    /\ LET r == Alloc(hp.heap, [Node("grouproll", hp.value, "", 0, 0, <<>>, <<>>)
                                  EXCEPT !.dice = hp.acc, !.valid = "true", !.order = 0])
       IN hp' = [hp EXCEPT !.pc = "done", !.heap = applyLabel(r.heap, hp.root, r.res),
                           !.res = r.res]

HeapNext ==
    \/ HeapLeaf
    \/ HeapHead
    \/ HeapOp
    \/ HeapExprReturn
    \/ HeapGroupMembers
    \/ HeapGroupReturn

HeapSpec == HeapInit /\ [][HeapNext]_vars

(***************************************************************************)
(* rollGroup.  The members of a Group are evaluated by async_map, that is  *)
(* Promise.all(array.map(func)): every callback runs at once up to its     *)
(* first await, and from then on the callbacks advance one microtask job   *)
(* at a time, in the order the jobs were queued.  A task is the chain of   *)
(* async calls of one member; task[m].pc is the continuation that runs     *)
(* next, task[m].wait the number of jobs that pass before it without       *)
(* effect: a promise returned from an async function is adopted by two     *)
(* jobs before the awaiting caller is queued.                              *)
(*                                                                         *)
(* Member nodes: a Number; a Replacement of a Number; a Die whose faces    *)
(* are a Number, whose count is a Number (called = "") or a Replacement of *)
(* a Number, and whose modifier list is empty or one reroll-style          *)
(* modifier; a DiceExpression of two such dice, head and tail, joined by   *)
(* one operator (called holds the operator), as the only member of a       *)
(* Group.  A task evaluates the head in phase 1 and the tail in phase 2.   *)
(***************************************************************************)
Names == {"f", "g"}

\* the transform the injected resolver returns for a name, applied to x
Transform(name, x) == IF name = "f" THEN x + 1 ELSE 2 * x

\* the samples drawn during a group evaluation
GroupSamples == {0, RandDen \div 2}

NumberNode(v) == [type |-> "number", value |-> v, called |-> "", faces |-> 0, mods |-> <<>>]
ReplacementNode(name, v) ==
    [type |-> "replacement", value |-> v, called |-> name, faces |-> 0, mods |-> <<>>]
DieNode(name, count, faces, mods) ==
    [type |-> "die", value |-> count, called |-> name, faces |-> faces, mods |-> mods]

\* head op tail, both Die nodes of count 1 without modifiers
DiceExprNode(op, faces) ==
    [type |-> "diceExpression", value |-> 1, called |-> op, faces |-> faces, mods |-> <<>>]

DiceExprNodes == {DiceExprNode(op, MaxFaces) : op \in {"+", "-"}}

MemberNodes ==
    {NumberNode(v) : v \in 1 .. 2}
        \cup {ReplacementNode(n, 1) : n \in Names}
        \cup {DieNode("", 1, MaxFaces, mods) :
                mods \in {<<>>, <<Mod("explode", "", FALSE, "=", 0)>>}}
        \cup {DieNode("f", 1, MaxFaces, <<>>)}

GroupModLists ==
    {<<>>,
     <<Mod("keep", "h", FALSE, "=", 1)>>,
     <<Mod("drop", "l", FALSE, "=", 1)>>,
     <<Mod("success", "", TRUE, ">", 1)>>,
     <<Mod("failure", "", TRUE, "<", 1)>>,
     <<Mod("keep", "h", FALSE, "=", 1), Mod("success", "", TRUE, ">", 1)>>,
     <<Mod("success", "", TRUE, ">", 1), Mod("keep", "h", FALSE, "=", 1)>>}

GroupTrees ==
    {[rolls |-> ms, mods |-> gm] :
        ms \in UNION {[1 .. n -> MemberNodes] : n \in 1 .. 2} \cup {<<x>> : x \in DiceExprNodes},
        gm \in GroupModLists}

NoGroupResult ==
    [dice |-> <<>>, value |-> 0, success |-> "null", successes |-> 0, failures |-> 0,
     flat |-> FALSE, before |-> <<>>]

\* the callback of member m, run up to its first await
StartTask(node) ==
    [pc |-> CASE node.type = "number" -> "cb"
              [] node.type = "replacement" -> "repl_check"
              [] node.type = "diceExpression" -> "die_count"
              [] OTHER -> IF node.called = "" THEN "die_count" ELSE "repl_check",
     wait |-> 0,
     count |-> IF node.type = "diceExpression" \/ (node.type = "die" /\ node.called = "")
               THEN node.value ELSE 0,
     rolls |-> <<>>, value |-> IF node.type = "number" THEN node.value ELSE 0,
     phase |-> 1, head |-> 0]

GroupInit ==
    /\ DieIdle
    /\ ReRollIdle
    /\ ExplodeIdle
    /\ PipelineIdle
    /\ HeapIdle
    /\ gtree \in GroupTrees
    /\ task = <<>>
    /\ queue = <<>>
    /\ rnd = <<>>
    /\ pos = 0
    /\ drawlog = <<>>
    /\ cached = [n \in Names |-> 0]
    /\ calls = [n \in Names |-> 0]
    /\ stores = [n \in Names |-> 0]
    /\ run = 1
    /\ gpc = "idle"
    /\ gres = NoGroupResult
    /\ gres1 = NoGroupResult

OnlyGroup == UNCHANGED dieVars /\ UNCHANGED <<rr, ex, pl, hp>>

\* rollParsed(gtree) -> rollType -> rollGroup -> async_map: array.map(func)
StartGroup ==
    /\ gpc = "idle"
    /\ OnlyGroup
    /\ gpc' = "members"
    /\ task' = [m \in 1 .. Len(gtree.rolls) |-> StartTask(gtree.rolls[m])]
    /\ queue' = [m \in 1 .. Len(gtree.rolls) |-> m]
    /\ UNCHANGED <<gtree, rnd, pos, drawlog, cached, calls, stores, run, gres, gres1>>

\* the job at the head of the microtask queue belongs to member m
Running(m, at) ==
    /\ gpc = "members"
    /\ queue # <<>>
    /\ m = Head(queue)
    /\ task[m].wait = 0
    /\ task[m].pc = at

\* the task awaits a promise that is settled, or returns to its awaiting caller
Yield(m, t) ==
    /\ task' = [task EXCEPT ![m] = t]
    /\ queue' = Append(Tail(queue), m)

\* a job of promise adoption
Tick ==
    /\ gpc = "members"
    /\ OnlyGroup
    /\ queue # <<>>
    /\ task[Head(queue)].wait > 0
    /\ Yield(Head(queue), [task[Head(queue)] EXCEPT !.wait = @ - 1])
    /\ UNCHANGED <<gtree, rnd, pos, drawlog, cached, calls, stores, run, gpc, gres, gres1>>

\* doReplacement after roll = await this.rollType(input.expr): the cache is
\* read; on a miss the resolver is called and its promise awaited
ReplCheck ==
    \E m \in DOMAIN task :
      /\ Running(m, "repl_check")
      /\ OnlyGroup
      /\ LET name == gtree.rolls[m].called
         IN IF cached[name] # 0
            THEN /\ Yield(m, [task[m] EXCEPT !.pc = "repl_rt",
                                             !.value = Transform(name, gtree.rolls[m].value)])
                 /\ UNCHANGED calls
            ELSE /\ calls' = [calls EXCEPT ![name] = @ + 1]
                 /\ task' = [task EXCEPT ![m].pc = "repl_wait"]
                 /\ queue' = Tail(queue)
      /\ UNCHANGED <<gtree, rnd, pos, drawlog, cached, stores, run, gpc, gres, gres1>>

\* the promise of the injected resolver settles
ResolverReturns ==
    \E m \in DOMAIN task :
      /\ gpc = "members"
      /\ OnlyGroup
      /\ task[m].pc = "repl_wait"
      /\ task' = [task EXCEPT ![m].pc = "repl_store"]
      /\ queue' = Append(queue, m)
      /\ UNCHANGED <<gtree, rnd, pos, drawlog, cached, calls, stores, run, gpc, gres, gres1>>

\* this.cached[name] = await ...; the transform is applied; doReplacement returns
ReplStore ==
    \E m \in DOMAIN task :
      /\ Running(m, "repl_store")
      /\ OnlyGroup
      /\ LET name == gtree.rolls[m].called
         IN /\ cached' = [cached EXCEPT ![name] = calls[name]]
            /\ stores' = [stores EXCEPT ![name] = @ + 1]
            /\ Yield(m, [task[m] EXCEPT !.pc = "repl_rt",
                                        !.value = Transform(name, gtree.rolls[m].value)])
      /\ UNCHANGED <<gtree, rnd, pos, drawlog, calls, run, gpc, gres, gres1>>

\* rollType after response = await this.doReplacement(input): it returns to
\* the callback, or to rollDie whose count the Replacement is
ReplReturn ==
    \E m \in DOMAIN task :
      /\ Running(m, "repl_rt")
      /\ OnlyGroup
      /\ IF gtree.rolls[m].type = "replacement"
         THEN Yield(m, [task[m] EXCEPT !.pc = "cb"])
         ELSE Yield(m, [task[m] EXCEPT !.pc = "die_count", !.count = task[m].value])
      /\ UNCHANGED <<gtree, rnd, pos, drawlog, cached, calls, stores, run, gpc, gres, gres1>>

\* rollDie after count = await this.rollType(input.count)
DieCount ==
    \E m \in DOMAIN task :
      /\ Running(m, "die_count")
      /\ OnlyGroup
      /\ IF tooLarge(task[m].count, DefaultMaxRolls)
         THEN /\ gpc' = "error"
              /\ UNCHANGED <<task, queue>>
         ELSE /\ Yield(m, [task[m] EXCEPT !.pc = "die_face"])
              /\ UNCHANGED gpc
      /\ UNCHANGED <<gtree, rnd, pos, drawlog, cached, calls, stores, run, gres, gres1>>

\* randFunction is called n times and returns ss: in the second run it
\* returns the samples of the first run again
Draw(m, ss) ==
    /\ \A j \in 1 .. Len(ss) : pos + j <= Len(rnd) => ss[j] = rnd[pos + j]
    /\ rnd' = IF pos + Len(ss) > Len(rnd) THEN SubSeq(rnd, 1, pos) \o ss ELSE rnd
    /\ pos' = pos + Len(ss)
    /\ drawlog' = drawlog \o [j \in 1 .. Len(ss) |-> m]

\* rollDie after die = await this.rollType(input.die): the trials; with a
\* modifier, getModMethod returns the promise of getExplodeMethod
DieFace ==
    \E m \in DOMAIN task :
      /\ Running(m, "die_face")
      /\ OnlyGroup
      /\ \E ss \in [1 .. task[m].count -> GroupSamples] :
           /\ Draw(m, ss)
           /\ LET made == [i \in 1 .. task[m].count |->
                              New(generateDiceRoll(gtree.rolls[m].faces, i - 1, ss[i]),
                                  Len(task[m].rolls) + i)]
              IN IF gtree.rolls[m].mods = <<>>
                 THEN Yield(m, [task[m] EXCEPT !.pc = "rt_ret", !.rolls = @ \o made,
                                               !.value = ValidSum(made)])
                 ELSE Yield(m, [task[m] EXCEPT !.pc = "mod_run", !.rolls = made,
                                               !.wait = IF gtree.rolls[m].mods[1].hasTarget
                                                        THEN 3 ELSE 2])
      /\ UNCHANGED <<gtree, cached, calls, stores, run, gpc, gres, gres1>>

\* applyMod after await this.getModMethod(mod): the method runs; its promise
\* is returned by applyMod to the arrow function of rollDie, that to
\* async_reduce, that to rollDie
DieModRun ==
    \E m \in DOMAIN task :
      /\ Running(m, "mod_run")
      /\ OnlyGroup
      /\ \E n \in 0 .. MaxDraw : \E ss \in [1 .. n -> GroupSamples] :
           LET r == applyMod(gtree.rolls[m].mods[1], task[m].rolls, ss)
           IN /\ ~r.starved
              /\ r.used = n
              /\ Draw(m, ss)
              /\ IF r.err # ""
                 THEN /\ gpc' = "error"
                      /\ UNCHANGED <<task, queue>>
                 ELSE /\ Yield(m, [task[m] EXCEPT !.pc = "die_tail", !.rolls = r.rolls,
                                                  !.wait = 4])
                      /\ UNCHANGED gpc
      /\ UNCHANGED <<gtree, cached, calls, stores, run, gres, gres1>>

\* rollDie after rolls = await async_reduce(...): the aggregate; rollDie returns
DieTail ==
    \E m \in DOMAIN task :
      /\ Running(m, "die_tail")
      /\ OnlyGroup
      /\ Yield(m, [task[m] EXCEPT !.pc = "rt_ret", !.value = ValidSum(task[m].rolls)])
      /\ UNCHANGED <<gtree, rnd, pos, drawlog, cached, calls, stores, run, gpc, gres, gres1>>

\* rollType after response = await this.rollDie(input)
RollTypeReturn ==
    \E m \in DOMAIN task :
      /\ Running(m, "rt_ret")
      /\ OnlyGroup
      /\ IF gtree.rolls[m].type = "diceExpression"
         THEN Yield(m, [task[m] EXCEPT !.pc = IF task[m].phase = 1 THEN "dx_ops" ELSE "dx_tail"])
         ELSE Yield(m, [task[m] EXCEPT !.pc = "cb"])
      /\ UNCHANGED <<gtree, rnd, pos, drawlog, cached, calls, stores, run, gpc, gres, gres1>>

\* rollDiceExpr after headRoll = await this.rollType(input.head): async_reduce
\* calls the arrow function, that rollType(math.tail), that rollDie
DiceExprOps ==
    \E m \in DOMAIN task :
      /\ Running(m, "dx_ops")
      /\ OnlyGroup
      /\ Yield(m, [task[m] EXCEPT !.pc = "die_count", !.phase = 2, !.head = task[m].value])
      /\ UNCHANGED <<gtree, rnd, pos, drawlog, cached, calls, stores, run, gpc, gres, gres1>>

\* the arrow function after tailRoll = await this.rollType(math.tail): the
\* value; it returns to async_reduce, that to rollDiceExpr, that to rollType
DiceExprTail ==
    \E m \in DOMAIN task :
      /\ Running(m, "dx_tail")
      /\ OnlyGroup
      /\ Yield(m, [task[m] EXCEPT
                     !.pc = "cb", !.wait = 3,
                     !.value = CASE gtree.rolls[m].called = "+" -> task[m].head + task[m].value
                                 [] gtree.rolls[m].called = "-" -> task[m].head - task[m].value
                                 [] OTHER -> task[m].head])
      /\ UNCHANGED <<gtree, rnd, pos, drawlog, cached, calls, stores, run, gpc, gres, gres1>>

\* the callback after await this.rollType(roll): ({ ...response, order })
Callback ==
    \E m \in DOMAIN task :
      /\ Running(m, "cb")
      /\ OnlyGroup
      /\ task' = [task EXCEPT ![m].pc = "done"]
      /\ queue' = Tail(queue)
      /\ UNCHANGED <<gtree, rnd, pos, drawlog, cached, calls, stores, run, gpc, gres, gres1>>

\* the result of member m as the callback returns it; rolls of a
\* DiceExpressionRoll: the trials of the dice of its dice array, in order
MemberResult(m) ==
    [type |-> IF gtree.rolls[m].type = "diceExpression" THEN "diceexpressionroll"
              ELSE gtree.rolls[m].type,
     value |-> task[m].value, order |-> m - 1, valid |-> TRUE,
     success |-> IF gtree.rolls[m].type = "replacement" THEN "true" ELSE "null",
     successes |-> 0, failures |-> 0, drop |-> FALSE, rolls |-> task[m].rolls, ref |-> m]

hasTarget(mods) == \E i \in 1 .. Len(mods) : mods[i].type \in {"failure", "success"}

\* async_reduce(mods, (arr, mod) => this.applyGroupMod(arr, mod), dice)
RECURSIVE reduceGroupMods(_, _)
reduceGroupMods(mods, dice) ==
    IF mods = <<>> THEN dice
    ELSE reduceGroupMods(Tail(mods), applyGroupMod(Head(mods), dice).rolls)

applyGroupMods(mods, dice) ==
    IF hasTarget(mods) THEN targetValues(reduceGroupMods(mods, dice))
    ELSE reduceGroupMods(mods, dice)

\* the modifiers that sort the array they are given in place: those before
\* the first success or failure, whose method returns a new array
RECURSIVE SortingPrefix(_)
SortingPrefix(mods) ==
    IF mods = <<>> \/ Head(mods).type \in {"failure", "success"} THEN <<>>
    ELSE <<Head(mods)>> \o SortingPrefix(Tail(mods))

\* a rollGroup that applies its modifiers to the members whatever they are
groupResultOfMembers(members, mods) ==
    LET dice == applyGroupMods(mods, members)
    IN [dice |-> dice, value |-> ValidSum(dice),
        success |-> IF hasTarget(mods) THEN Bool(ValidSum(dice) > 0) ELSE "null",
        successes |-> IF hasTarget(mods) THEN TotalSuccesses(dice) ELSE 0,
        failures |-> IF hasTarget(mods) THEN TotalFailures(dice) ELSE 0,
        flat |-> FALSE, before |-> members]

\* rollGroup after the members: the modifiers, the aggregate, the GroupRoll
groupResult(members, mods) ==
    IF mods = <<>>
    THEN [dice |-> members, value |-> ValidSum(members), success |-> "null",
          successes |-> 0, failures |-> 0, flat |-> FALSE, before |-> members]
    ELSE IF Len(members) = 1 /\ members[1].type \in {"die", "diceexpressionroll"}
    THEN LET dice == applyGroupMods(mods, members[1].rolls)
             \* the rolls array of a die is sorted itself; the array made of the
             \* dice of a dice expression is a new one
             inPlace == IF members[1].type = "die"
                        THEN reduceGroupMods(SortingPrefix(mods), members[1].rolls)
                        ELSE members[1].rolls
             roll == [members[1] EXCEPT
                        !.value = ValidSum(dice),
                        !.rolls = [i \in 1 .. Len(inPlace) |-> ByRefOf(dice, inPlace[i].ref)]]
         IN [dice |-> <<roll>>, value |-> roll.value,
             success |-> IF hasTarget(mods) THEN Bool(roll.value > 0) ELSE "null",
             successes |-> IF hasTarget(mods) THEN TotalSuccesses(dice) ELSE 0,
             failures |-> IF hasTarget(mods) THEN TotalFailures(dice) ELSE 0,
             flat |-> TRUE, before |-> members[1].rolls]
    ELSE LET dice == applyGroupMods(mods, members)
         IN [dice |-> dice, value |-> ValidSum(dice),
             success |-> IF hasTarget(mods) THEN Bool(ValidSum(dice) > 0) ELSE "null",
             successes |-> IF hasTarget(mods) THEN TotalSuccesses(dice) ELSE 0,
             failures |-> IF hasTarget(mods) THEN TotalFailures(dice) ELSE 0,
             flat |-> FALSE, before |-> members]

\* Promise.all settles once every callback has returned
GroupReturn ==
    /\ gpc = "members"
    /\ OnlyGroup
    /\ \A m \in DOMAIN task : task[m].pc = "done"
    /\ gres' = groupResult([m \in DOMAIN task |-> MemberResult(m)], gtree.mods)
    /\ gpc' = "done"
    /\ UNCHANGED <<gtree, task, queue, rnd, pos, drawlog, cached, calls, stores, run, gres1>>

\* the same DiceRoller evaluates the same tree again, randFunction
\* returning the same samples
SecondEvaluation ==
    /\ gpc = "done"
    /\ run = 1
    /\ OnlyGroup
    /\ run' = 2
    /\ gres1' = gres
    /\ gres' = NoGroupResult
    /\ pos' = 0
    /\ drawlog' = <<>>
    /\ gpc' = "members"
    /\ task' = [m \in 1 .. Len(gtree.rolls) |-> StartTask(gtree.rolls[m])]
    /\ queue' = [m \in 1 .. Len(gtree.rolls) |-> m]
    /\ UNCHANGED <<gtree, rnd, cached, calls, stores>>

GroupNext ==
    \/ StartGroup
    \/ Tick
    \/ ReplCheck
    \/ ResolverReturns
    \/ ReplStore
    \/ ReplReturn
    \/ DieCount
    \/ DieFace
    \/ DieModRun
    \/ DieTail
    \/ RollTypeReturn
    \/ DiceExprOps
    \/ DiceExprTail
    \/ Callback
    \/ GroupReturn
    \/ SecondEvaluation

GroupSpec == GroupInit /\ [][GroupNext]_vars

(***************************************************************************)
(* Properties.                                                             *)
(***************************************************************************)
Refs(rs) == {rs[i].ref : i \in 1 .. Len(rs)}
ByRef(rs, x) == ByRefOf(rs, x)
ModStage(types) == last.stage = "mod" /\ last.mod.type \in types /\ pc # "error"

\* C1: a standard Die node with no modifiers, targets, match or sort and a
\* count c <= maxRollCount yields exactly c trials, every roll in 1 .. faces,
\* and a value equal to the sum of the trials' values.
C1_PlainDie ==
    (pc = "done" /\ ~input.fate /\ nmods = 0 /\ ~res.targets)
        => /\ Len(rolls) = input.count
           /\ \A i \in 1 .. Len(rolls) : rolls[i].roll \in 1 .. input.faces
           /\ res.value = SumSeq([i \in 1 .. Len(rolls) |-> rolls[i].value])

\* what C1 says of the count and of the sum alone
C1_CountAndSum ==
    (pc = "done" /\ ~input.fate /\ nmods = 0 /\ ~res.targets)
        => /\ Len(rolls) = input.count
           /\ \A i \in 1 .. Len(rolls) : rolls[i].roll \in 1 .. (input.faces + 1)
           /\ res.value = SumSeq([i \in 1 .. Len(rolls) |-> rolls[i].value])

\* the target of explode, compound and penetrate as the modifier states it: the
\* explicit comparator and value, or "equals the maximum face"
ResolvedExplodeTarget(mod, faces, v) ==
    IF mod.hasTarget THEN successTest(mod.mod, mod.value, v) ELSE v = faces

\* C5: explode, compound and penetrate on a pool of standard trials fail with
\* the invalid-target error, before any new trial is generated, whenever the
\* resolved target matches both outcome 1 and outcome faces.
C5_DegenerateTargetFails ==
    (/\ last.stage = "mod"
     /\ last.mod.type \in {"explode", "compound", "penetrate"}
     /\ Len(prev) > 0
     /\ prev[1].type = "roll"
     /\ ResolvedExplodeTarget(last.mod, prev[1].die, 1)
     /\ ResolvedExplodeTarget(last.mod, prev[1].die, prev[1].die))
        => (pc = "error" /\ err = InvalidTarget /\ last.drawn = 0)

\* C7: keep-highest k on a pool with n valid entries leaves min(k, n) entries
\* valid; the entries it invalidates are valid entries with the lowest rolls
\* and get valid = false, drop = true and no other change; entries already
\* invalid are unchanged; no entry is added or removed.
C7_KeepHighest ==
    (ModStage({"keep"}) /\ last.mod.highlow = "h")
        => /\ NumValid(rolls) = Min(last.mod.value, NumValid(prev))
           /\ Len(rolls) = Len(prev)
           /\ Refs(rolls) = Refs(prev)
           /\ \A x \in Refs(prev) :
                LET old == ByRef(prev, x)
                    new == ByRef(rolls, x)
                IN /\ ~old.valid => new = old
                   /\ (old.valid /\ new.valid) => new = old
                   /\ (old.valid /\ ~new.valid) =>
                        /\ new = [old EXCEPT !.valid = FALSE, !.drop = TRUE]
                        /\ \A y \in Refs(rolls) : ByRef(rolls, y).valid => old.roll <= ByRef(rolls, y).roll

\* a keep-highest that drops an entry of a pool holding a dropped or rerolled entry
C7_Witness ==
    /\ ModStage({"keep"})
    /\ last.mod.highlow = "h"
    /\ \E i \in 1 .. Len(prev) : ~prev[i].valid
    /\ NumValid(rolls) < NumValid(prev)
    /\ NumValid(rolls) > 0

\* C8 at a die: after keep or drop the entries stand in the sequence they
\* stood in before, and only valid and drop have changed.
C8_DieSequenceKept ==
    ModStage({"keep", "drop"})
        => /\ Len(rolls) = Len(prev)
           /\ \A i \in 1 .. Len(rolls) :
                [rolls[i] EXCEPT !.valid = prev[i].valid, !.drop = prev[i].drop] = prev[i]

\* C9 at a die: with targets, value = successes - failures and success = (value > 0)
C9_DieTargets ==
    (pc = "done" /\ res.targets)
        => /\ res.value = res.successes - res.failures
           /\ res.success = Bool(res.value > 0)

\* C10: reroll-once adds exactly one new trial after every entry of the pool
\* that matches the target and never tests the new trial: it stays valid and
\* unmarked whatever it rolled; after reroll every entry that matches the
\* target is invalid, marked reroll and followed by a new trial.
C10_ReRoll ==
    /\ ModStage({"rerollOnce"}) =>
         /\ Len(rolls) = Len(prev)
                + Cardinality({i \in 1 .. Len(prev) : rerollTarget(last.mod, prev[i].roll)})
         /\ Refs(prev) \subseteq Refs(rolls)
         /\ \A i \in 1 .. Len(rolls) :
              IF rolls[i].ref \in Refs(prev)
              THEN LET old == ByRef(prev, rolls[i].ref)
                   IN IF rerollTarget(last.mod, old.roll)
                      THEN /\ rolls[i] = [old EXCEPT !.valid = FALSE, !.reroll = TRUE]
                           /\ i < Len(rolls)
                           /\ rolls[i + 1].ref \notin Refs(prev)
                      ELSE rolls[i] = old
              ELSE /\ rolls[i].valid
                   /\ ~rolls[i].reroll
                   /\ i > 1
                   /\ rolls[i - 1].ref \in Refs(prev)
    /\ ModStage({"reroll"}) =>
         /\ Refs(prev) \subseteq Refs(rolls)
         /\ \A i \in 1 .. Len(rolls) :
              IF rerollTarget(last.mod, rolls[i].roll)
              THEN /\ ~rolls[i].valid
                   /\ rolls[i].reroll
                   /\ i < Len(rolls)
                   /\ rolls[i + 1].ref \notin Refs(prev)
              ELSE rolls[i].ref \in Refs(prev) => rolls[i] = ByRef(prev, rolls[i].ref)

\* a reroll-once whose new trial matches the target again and is left alone
C10_Witness ==
    /\ ModStage({"rerollOnce"})
    /\ \E i \in 1 .. Len(rolls) :
         /\ rolls[i].ref \notin Refs(prev)
         /\ rerollTarget(last.mod, rolls[i].roll)
         /\ rolls[i].valid

\* a reroll that replaced the replacement
C10_WitnessChain ==
    /\ ModStage({"reroll"})
    /\ \E i \in 1 .. (Len(rolls) - 1) :
         /\ rolls[i].ref \notin Refs(prev)
         /\ rolls[i].reroll
         /\ rolls[i + 1].ref \notin Refs(prev)

\* C6: the reroll stage ends: it throws or it returns.
C6_ReRollEnds == <>(rr.pc \in {"done", "error"})

\* C6, a finite form: once past the guard, some outcome of the die fails the
\* target test, so that the while loop can end
C6_LoopCanEnd ==
    rr.pc = "loop"
        => \E v \in (IF rr.type = "roll" THEN DieOutcomes(rr.die) ELSE FateOutcomes) :
             ~rerollTarget(rr.mod, v)

\* C6 for standard dice alone
C6_StandardEnds == (rr.type = "roll") => <>(rr.pc \in {"done", "error"})

\* C2: the same tree evaluated twice by one DiceRoller against the same
\* samples gives the same result tree.
C2_SameResultTwice == (run = 2 /\ gpc = "done") => gres = gres1

\* C3: the draws of a Group are made member by member, left to right: no
\* draw of a member comes after a draw of a later member.
C3_DrawsLeftToRight ==
    \A i, j \in DOMAIN drawlog : i < j => drawlog[i] <= drawlog[j]

\* C4: the resolver is called at most once for a name, and the cache entry
\* of a name is written at most once.
C4_ResolverOncePerName == \A n \in Names : calls[n] <= 1 /\ stores[n] <= 1

\* the pool the modifiers of a Group were applied to, as the result holds it
ResultPool == IF gres.flat THEN gres.dice[1].rolls ELSE gres.dice

\* C8 at a Group: after keep or drop modifiers alone, the entries of the
\* pool stand in the sequence they stood in before.
C8_GroupSequenceKept ==
    (/\ gpc = "done"
     /\ gtree.mods # <<>>
     /\ \A i \in 1 .. Len(gtree.mods) : gtree.mods[i].type \in {"keep", "drop"})
        => [i \in 1 .. Len(ResultPool) |-> ResultPool[i].ref]
             = [i \in 1 .. Len(gres.before) |-> gres.before[i].ref]

\* C9 at a Group: with a success or failure modifier, value = successes -
\* failures and success = (value > 0).
C9_GroupTargets ==
    (gpc = "done" /\ hasTarget(gtree.mods))
        => /\ gres.value = gres.successes - gres.failures
           /\ gres.success = Bool(gres.value > 0)

C11_InsertedAfter ==
    /\ ModStage({"compound"}) => Len(rolls) = Len(prev)
    /\ ModStage({"explode"}) =>
         /\ Len(rolls) = Len(prev) + last.drawn
         /\ (\E i \in 1 .. Len(prev) : explodeTarget(last.mod, prev[i])) => Len(rolls) > Len(prev)
         /\ \A i \in 1 .. Len(rolls) :
              rolls[i].ref \notin Refs(prev)
                  => /\ i > 1
                     /\ rolls[i - 1].explode
                     /\ explodeTarget(last.mod, rolls[i - 1])

\* C12: at most 1000 new trials are generated per entry; an error comes
\* from the guard alone, before any trial is generated; when the cap ends
\* the loop of an entry the for loop goes on, and the method returns.
C12_CapIsSilent ==
    /\ [](/\ ex.made <= ExplodeCap
          /\ ex.pc = "error" => (ex.made = 0 /\ ~ex.capped))
    /\ [][(ex.pc = "for" /\ ex.capped) => ex'.pc \in {"while", "done"}]_vars
    /\ (ex.capped ~> (ex.pc = "done"))

\* the cap has ended the loop of one entry and the next entry is under test
C12_Witness ==
    /\ ex.capped
    /\ ex.pc = "while"
    /\ ex.explodeCount = 0

\* the entries of rs whose roll is v
Sharing(rs, v) == {i \in 1 .. Len(rs) : rs[i].roll = v}

\* v passes the comparator of the match spec: at-least, at-most, or equal
PassesMatch(match, v) ==
    ~match.hasCmp \/ CASE match.mod = ">" -> v >= match.value
                       [] match.mod = "<" -> v <= match.value
                       [] OTHER -> v = match.value

\* C13: after the match stage an entry is matched exactly when at least min
\* entries of the pool share its roll and the roll passes the comparator of
\* the spec, nothing else of an entry changes, and with the count override
\* the value of the die is the number of distinct qualifying rolls.
C13_Match ==
    (pc = "done" /\ last.stage = "match")
        => /\ Len(rolls) = Len(prev)
           /\ \A i \in 1 .. Len(rolls) :
                /\ rolls[i] = [prev[i] EXCEPT !.matched = rolls[i].matched]
                /\ rolls[i].matched <=>
                     /\ Cardinality(Sharing(prev, prev[i].roll)) >= res.match.min
                     /\ PassesMatch(res.match, prev[i].roll)
           /\ res.match.count =>
                res.value = Cardinality({rolls[i].roll : i \in {j \in 1 .. Len(rolls) : rolls[j].matched}})

\* a match of minimum 2 with the count override: two entries share a roll,
\* a third does not, and the value is 1
C13_Witness ==
    /\ pc = "done"
    /\ last.stage = "match"
    /\ res.match.min = 2
    /\ res.match.count
    /\ Cardinality({i \in 1 .. Len(rolls) : rolls[i].matched}) >= 2
    /\ \E i \in 1 .. Len(rolls) : ~rolls[i].matched
    /\ res.value = 1

\* C14: a Group of one Die or DiceExpression member with keep or drop
\* modifiers marks trials of the member, not the member: the member stays
\* valid, the trials invalidated are the lowest ones and are marked drop,
\* and the value of the member and of the Group is the sum of value over
\* the trials still valid.
C14_SingleMemberFlattened ==
    (/\ gpc = "done"
     /\ Len(gtree.rolls) = 1
     /\ gtree.rolls[1].type \in {"die", "diceExpression"}
     /\ gtree.mods # <<>>
     /\ \A i \in 1 .. Len(gtree.mods) : gtree.mods[i].type \in {"keep", "drop"})
        => LET member == gres.dice[1]
               n == NumValid(gres.before)
               k == Min(gtree.mods[1].value, n)
           IN /\ Len(gres.dice) = 1
              /\ member.valid
              /\ ~member.drop
              /\ Refs(member.rolls) = Refs(gres.before)
              /\ NumValid(member.rolls) = IF gtree.mods[1].type = "keep" THEN k ELSE n - k
              /\ \A i, j \in 1 .. Len(member.rolls) :
                   (~member.rolls[i].valid /\ member.rolls[j].valid)
                       => /\ member.rolls[i].drop
                          /\ member.rolls[i].value <= member.rolls[j].value
              /\ member.value = ValidSum(member.rolls)
              /\ gres.value = member.value

\* a Group of one Die of two trials, one of them dropped by the modifier
C14_Witness ==
    /\ gpc = "done"
    /\ Len(gtree.rolls) = 1
    /\ gtree.rolls[1].type = "die"
    /\ gtree.mods = <<Mod("keep", "h", FALSE, "=", 1)>>
    /\ Len(gres.dice[1].rolls) >= 2
    /\ NumValid(gres.dice[1].rolls) = 1
    /\ gres.dice[1].valid

\* a Group of one DiceExpression, head - tail, one of its two trials dropped
C14_WitnessExpression ==
    /\ gpc = "done"
    /\ Len(gtree.rolls) = 1
    /\ gtree.rolls[1].type = "diceExpression"
    /\ gtree.rolls[1].called = "-"
    /\ gtree.mods = <<Mod("drop", "l", FALSE, "=", 1)>>
    /\ NumValid(gres.dice[1].rolls) = 1
    /\ gres.value = 2

\* C15: a count above the maximum roll count fails with the over-limit
\* error, no sample drawn, no trial made and no result returned; a count up
\* to the maximum, the maximum included, gives that many trials.
C15_OverLimit ==
    /\ (last.stage = "roll" /\ input.count > input.maxRollCount)
         => /\ pc = "error"
            /\ err = "Entered number of dice too large."
            /\ last.drawn = 0
            /\ rolls = <<>>
            /\ res = NoResult
    /\ (last.stage = "roll" /\ input.count <= input.maxRollCount)
         => /\ pc = "mods"
            /\ Len(rolls) = input.count
    /\ err = "Entered number of dice too large." => last.stage = "roll"

\* a count of 1001 against the default maximum of 1000 has failed
C15_Witness ==
    /\ input.maxRollCount = DefaultMaxRolls
    /\ input.count = DefaultMaxRolls + 1
    /\ pc = "error"

\* a count equal to the configured maximum has been rolled
C15_WitnessAtLimit ==
    /\ input.count = input.maxRollCount
    /\ pc = "mods"
    /\ Len(rolls) = input.count

\* C16: an evaluation of a tree that holds a modifier of a type that is not
\* implemented, or a node of a type that is not known, returns no result.
C16_UnknownKindFails ==
    /\ (last.stage = "mod" /\ last.mod.type = "bogus") => (pc = "error" /\ res = NoResult)
    /\ (last.stage = "match" /\ res.match.expr \notin NodeTypes) => pc = "error"

\* the stages of a Die node that are modifier stages or the sort
PoolStage == last.stage \in {"mod", "sort"} /\ pc # "error"

\* C17: a keep, drop, reroll, reroll-once, explode, compound, penetrate,
\* success, failure, critical or sort stage leaves every entry of the pool
\* in the pool, and the value of a die result without a match count is the
\* sum of the values of its valid entries: an invalid entry adds nothing.
C17_NothingRemoved ==
    /\ PoolStage => Refs(prev) \subseteq Refs(rolls)
    /\ (pc = "done" /\ ~res.matched) =>
          res.value = SumSeq([i \in 1 .. Len(rolls) |-> rolls[i].value])
                        - SumSeq([i \in 1 .. Len(rolls) |->
                                    IF rolls[i].valid THEN 0 ELSE rolls[i].value])

\* a pool with an invalid entry of value other than 0 has gone through a
\* second stage and the result is returned
C17_Witness ==
    /\ pc = "done"
    /\ ~res.matched
    /\ nmods = MaxMods
    /\ \E i \in 1 .. Len(rolls) : ~rolls[i].valid /\ rolls[i].value # 0
    /\ Refs(prev) \subseteq Refs(rolls)

\* the test of the claim: at-least, at-most, or equality for any other comparator
Passes(c, t, v) ==
    IF c = ">" THEN v >= t ELSE IF c = "<" THEN v <= t ELSE v = t

\* the entry a counting stage makes of the entry r
Counted(type, r) ==
    IF ~(r.valid /\ Passes(last.mod.mod, last.mod.value, r.roll)) THEN r
    ELSE IF type = "success" THEN [r EXCEPT !.successes = r.successes + 1]
    ELSE [r EXCEPT !.failures = r.failures + 1]

\* C18: a success (failure) stage of a Die node adds 1 to successes
\* (failures) of each valid entry whose roll passes the test and changes
\* nothing else of the pool.
C18_CountingStage ==
    \A type \in {"success", "failure"} :
        ModStage({type}) =>
            /\ Len(rolls) = Len(prev)
            /\ \A i \in 1 .. Len(prev) : rolls[i] = Counted(type, prev[i])

\* a success stage with an at-least target has run on a pool that holds a
\* valid entry that passes the test and an entry that fails it
C18_Witness ==
    /\ ModStage({"success"})
    /\ last.mod.mod = ">"
    /\ \E i, j \in 1 .. Len(prev) :
         /\ prev[i].valid /\ prev[i].roll >= last.mod.value
         /\ rolls[i].successes = prev[i].successes + 1
         /\ prev[j].roll < last.mod.value
         /\ rolls[j] = prev[j]

\* a failure stage with a comparator that is not one of the three has run on
\* an entry whose roll is the target
C18_WitnessOther ==
    /\ ModStage({"failure"})
    /\ last.mod.mod \notin Comparators
    /\ \E i \in 1 .. Len(prev) : rolls[i].failures = prev[i].failures + 1

\* C19: when a keep, drop or sort stage of a Die node runs, the entries of
\* the pool it is given have pairwise distinct order values.
C19_OrdersDistinct ==
    (ModStage({"keep", "drop"}) \/ last.stage = "sort")
        => \A i, j \in 1 .. Len(prev) : i # j => prev[i].order # prev[j].order

\* whether the configured target of a reroll-style modifier matches the
\* outcome v of a die with the given number of faces: the explicit target,
\* or the implicit one (the highest face for explode, compound and
\* penetrate, 1 for reroll and reroll-once)
ConfiguredTarget(mod, faces, v) ==
    IF mod.hasTarget THEN Passes(mod.mod, mod.value, v)
    ELSE IF mod.type \in {"explode", "compound", "penetrate"} THEN v = faces
    ELSE v = 1

\* C20: the invalid-target error is raised by a reroll, reroll-once, explode,
\* compound or penetrate stage only, and only when the configured target
\* matches both outcome 1 and outcome faces of the die.
C20_InvalidTargetOnlyDegenerate ==
    err = InvalidTarget
        => /\ last.stage = "mod"
           /\ last.mod.type \in {"reroll", "rerollOnce", "explode", "compound", "penetrate"}
           /\ ConfiguredTarget(last.mod, input.faces, 1)
           /\ ConfiguredTarget(last.mod, input.faces, input.faces)

\* what getPenetrateMethod makes of the pool and the samples of the explode
\* stage that has just run, compared with what the explode stage made
SameUpToPenalty(e, p) ==
    /\ (e.err # "") = (p.err # "")
    /\ e.err = "" =>
         /\ Len(p.rolls) = Len(e.rolls)
         /\ p.used = e.used
         /\ \A i \in 1 .. Len(e.rolls) :
              /\ p.rolls[i].roll = e.rolls[i].roll
              /\ p.rolls[i].order = e.rolls[i].order
              /\ p.rolls[i].valid = e.rolls[i].valid
              /\ p.rolls[i].explode = e.rolls[i].explode
              /\ p.rolls[i].value =
                    IF e.rolls[i].ref \in Refs(prev) THEN e.rolls[i].value
                    ELSE e.rolls[i].roll - 1

\* C21: penetrate, run on the pool, the target and the samples of an explode
\* stage, fails when explode fails, and otherwise gives a sequence with the
\* same roll, order, valid and explode at every position, the value of each
\* generated trial being its roll less 1.
C21_PenetrateIsExplode ==
    (last.stage = "mod" /\ last.mod.type = "explode")
        => \A n \in 0 .. MaxDraw : \A ss \in [1 .. n -> Samples] :
             LET e == applyMod(last.mod, prev, ss)
                 p == applyMod([last.mod EXCEPT !.type = "penetrate"], prev, ss)
             IN (/\ ~e.starved
                 /\ e.used = n
                 /\ n = last.drawn
                 /\ IF e.err # "" THEN pc = "error" /\ err = e.err
                    ELSE pc # "error" /\ e.rolls = rolls)
                    => (~p.starved /\ SameUpToPenalty(e, p))

\* C22: the test that ends the loop of compound is applied to the original
\* entry with its accumulated roll: when a compound stage that stayed under
\* the cap has finished, no entry that received a bonus trial has an
\* accumulated roll that passes the target test.
C22_CompoundTestsAccumulated ==
    (ModStage({"compound"}) /\ last.drawn < ExplodeCap)
        => \A i \in 1 .. Len(rolls) :
              (rolls[i].explode /\ ~prev[i].explode)
                 => ~explodeTarget(last.mod, rolls[i])

\* the stages a Die node asks for, in the order of rollDie
ExpectedStages(node) ==
    <<"roll">> \o [k \in 1 .. Len(node.mods) |-> "mod"]
        \o (IF node.targets # <<>> THEN <<"targets">> ELSE <<>>)
        \o (IF node.match # NoMatch THEN <<"match">> ELSE <<>>)
        \o (IF node.sort # "none" THEN <<"sort">> ELSE <<>>)

\* C23: the stages of a Die node run in the order roll, the modifiers in
\* list order, targets, match, sort; each stage is given what the stage
\* before it returned; the draws of a stage come after those of the stages
\* before it; the result is returned when every stage has run.
C23_StagesInOrder ==
    pl.pc # "idle" =>
        /\ Len(pl.log) <= Len(ExpectedStages(pl.node))
        /\ \A j \in 1 .. Len(pl.log) : pl.log[j].stage = ExpectedStages(pl.node)[j]
        /\ \A j \in 2 .. Len(pl.log) : pl.log[j].inp = pl.log[j - 1].out
        /\ \A j \in 1 .. pl.k :
              \E ss \in [1 .. pl.log[j + 1].drawn -> Samples] :
                 applyMod(pl.node.mods[j], pl.log[j].out, ss).rolls = pl.log[j + 1].out
        /\ \A a, b \in 1 .. Len(pl.draws) : a < b => pl.draws[a] <= pl.draws[b]
        /\ pl.pc = "done" => Len(pl.log) = Len(ExpectedStages(pl.node))

\* a Die node with two modifiers that both drew, targets, match and sort
\* has been evaluated to the end
C23_Witness ==
    /\ pl.pc = "done"
    /\ Len(pl.log) = 6
    /\ pl.log[2].drawn > 0
    /\ pl.log[3].drawn > 0
    /\ pl.node.mods[1] # pl.node.mods[2]

\* the position in the array rs of the object with identity x
PosOf(rs, x) == CHOOSE i \in 1 .. Len(rs) : rs[i].ref = x

\* C24: the sort stage of a Die node puts the entries in ascending or
\* descending order of roll, entries of equal roll staying in the order they
\* had, sets order to the 0-based position, changes nothing else of any
\* entry, leaves the value of the die what it was, and changes nothing when
\* run again on its own output.
C24_Sort ==
    (last.stage = "sort" /\ pc = "done") =>
        /\ Len(rolls) = Len(prev)
        /\ Refs(rolls) = Refs(prev)
        /\ \A i \in 1 .. Len(rolls) :
              /\ rolls[i].order = i - 1
              /\ [rolls[i] EXCEPT !.order = ByRef(prev, rolls[i].ref).order]
                    = ByRef(prev, rolls[i].ref)
        /\ \A i, j \in 1 .. Len(rolls) :
              i < j => /\ (res.sort = "asc" => rolls[i].roll <= rolls[j].roll)
                       /\ (res.sort = "desc" => rolls[i].roll >= rolls[j].roll)
                       /\ (rolls[i].roll = rolls[j].roll
                              => PosOf(prev, rolls[i].ref) < PosOf(prev, rolls[j].ref))
        /\ res.value = ValidSum(prev)
        /\ applySort(rolls, res.sort = "asc") = rolls

\* a descending sort has moved an entry of a pool that holds two entries of
\* the same roll and an invalid entry
C24_Witness ==
    /\ last.stage = "sort"
    /\ pc = "done"
    /\ res.sort = "desc"
    /\ \E i, j \in 1 .. Len(prev) : i < j /\ prev[i].roll = prev[j].roll
    /\ \E i \in 1 .. Len(prev) : ~prev[i].valid
    /\ \E i \in 1 .. Len(prev) : rolls[i].ref # prev[i].ref

\* C25: a reroll, reroll-once, explode or penetrate stage of a Die node leaves
\* the entries that were invalid when it started as they were, neither
\* rerolled nor exploded, and a reroll or reroll-once stage leaves the number
\* of valid entries what it was.
C25_OnlyValidEntries ==
    /\ ModStage({"reroll", "rerollOnce", "explode", "penetrate"}) =>
          \A x \in Refs(prev) :
             ~ByRef(prev, x).valid =>
                 /\ ByRef(rolls, x).reroll = ByRef(prev, x).reroll
                 /\ ByRef(rolls, x).explode = ByRef(prev, x).explode
    /\ ModStage({"reroll", "rerollOnce"}) => NumValid(rolls) = NumValid(prev)

\* C26: on the empty pool of a Die node whose count is 0, an explode,
\* compound, penetrate, reroll or reroll-once stage ends without an error and
\* returns the empty pool.
C26_EmptyPool ==
    (/\ input.count = 0
     /\ last.stage = "mod"
     /\ last.mod.type \in {"explode", "compound", "penetrate", "reroll", "rerollOnce"})
        => (pc # "error" /\ err = "" /\ rolls = <<>>)

\* the objects of the result hp.res: the result and the entries of its dice
ResultObjects ==
    IF hp.res = 0 THEN {}
    ELSE {hp.res} \cup {hp.heap[hp.res].dice[i] : i \in 1 .. Len(hp.heap[hp.res].dice)}

\* C27: at every point of an evaluation each object of the syntax tree is
\* as the caller handed it in, and no object of the result is an object of
\* the syntax tree.
C27_InputUnchanged ==
    hp.pc # "idle" =>
        /\ \A id \in 1 .. hp.n : hp.heap[id] = hp.tree[id]
        /\ \A id \in ResultObjects : id > hp.n

\* a Dice-Expression has been evaluated whose second tail is a Number node
\* under a labelled Inline: its result carries order 1 and the label, the
\* node neither
C27_Witness ==
    /\ hp.pc = "done"
    /\ hp.heap[hp.root].type = "diceExpression"
    /\ Len(hp.heap[hp.res].dice) = 3
    /\ hp.heap[hp.heap[hp.res].dice[3]].order = 1
    /\ hp.heap[hp.heap[hp.res].dice[3]].label = "a"
    /\ hp.heap[2].label = ""
    /\ hp.heap[2].order = 0 - 1

====
